---------------------------- MODULE Spec2Model ----------------------------
(***************************************************************************)
(* A model of jks-01/AI_Agent: the supervisor's parallel fan-out with      *)
(* per-task fallback (ai_agent/supervisor_agent.py), the pricing pipeline  *)
(* (ai_agent_output.py), and the four agents' analyze with the report      *)
(* SupervisorAgent.process builds from them.                               *)
(***************************************************************************)
EXTENDS Integers, Sequences, FiniteSets, TLC

VARIABLES
    pc,        \* position of the thread running _run_parallel_with_fallback
    img,       \* the optimized_bytes argument: "bytes" or "none" (None)
    waited,    \* time units elapsed inside concurrent.futures.wait
    futs,      \* state of each submitted future
    done,      \* the `done` set returned by concurrent.futures.wait
    timedOut,  \* TRUE when wait returned because its timeout elapsed
    idx,       \* index of the task the collection loop / fallback chain is at
    results,   \* the results dict: slot -> absent / None / a payload
    fb,        \* state of each task's synchronous fallback call
    parCalls,  \* number of times a worker has invoked each classifier's analyze
    fbCalls,   \* number of times the fallback chain has invoked it
    \* ---- ai_agent_output.py ----
    ppc,             \* position of run_full_pipeline / of the estimator call
    brief_used,      \* brief.get("similar_used_price") as the collaborator gave it
    readable,        \* whether _read_bytes_or_none finds the image file
    used_avg,        \* baseline: _to_int_or_none(brief_used); the estimator's baseline_price
    dmg_grade,       \* attrs.get("damage_absolute_grade"); the estimator's damage_grade
    soil_grade,      \* attrs.get("soil_absolute_grade"); the estimator's soil_grade
    base_bias,       \* the base_bias argument, a decimal <<numerator, denominator>>
    purchase_price,  \* the purchase price computed
    estCalls,        \* number of calls of estimate_purchase_price_by_grade
    \* ---- the agents and SupervisorAgent.process ----
    api_key,    \* whether GEMINI_API_KEY or GOOGLE_API_KEY is set
    replies,    \* what generate_content does for each agent's call
    responses,  \* the response of each agent in `results`
    report,     \* the dict process returns
    attrs,      \* the dict run_condition_agents_absolute returns
    error,      \* what raised: "none", "config", "agent" or "aggregate"
    agentsRun,  \* whether the agents' analyze have been called
    \* ---- one agent function called on its own ----
    lpc,   \* position of the call
    call,  \* its arguments
    ret    \* what it returned

supVars == <<pc, img, waited, futs, done, timedOut, idx, results, fb, parCalls, fbCalls>>

pipeVars == <<ppc, brief_used, readable, used_avg, dmg_grade, soil_grade,
              base_bias, purchase_price, estCalls>>

repVars == <<api_key, replies, responses, report, attrs, error, agentsRun>>

labVars == <<lpc, call, ret>>

vars == <<supVars, pipeVars, repVars, labVars>>

(***************************************************************************)
(* Program data                                                            *)
(***************************************************************************)

\* insertion order of the futs dict and order of the fallback chain
TaskOrder == <<"type", "material", "damage", "soil">>

Tasks == {TaskOrder[i] : i \in 1..Len(TaskOrder)}

\* timeout=30 of concurrent.futures.wait
Deadline == 30

Images == {"bytes", "none"}

\* How one invocation of a classifier's analyze can end for a given image.
\* TypeAgent.analyze catches every exception; MaterialAgent.analyze raises
\* only for a None image (the check precedes its try block); DamageAgent and
\* SoilAgent raise for a None image and re-raise a failed API call.
AnalyzeOutcomes(t, image) ==
    IF t = "type" THEN {"ok"}
    ELSE IF image = "none" THEN {"exc"}
    ELSE IF t = "material" THEN {"ok"}
    ELSE {"ok", "exc"}

\* mutant: None counted as a result (only an absent key is falsy)
Truthy_NoneCounts(v) == v # "absent"

\* Python truthiness of a results slot as read by results.get(name):
\* an absent key and None are falsy, a (response, tokens) tuple is truthy.
Truthy(v) == v \in {"par", "fb"}

Finished(f) == f \in {"ok", "exc", "cancelled"}

AllFinished == \A t \in Tasks : Finished(futs[t])

SomeRaised == \E t \in Tasks : futs[t] = "exc"

\* mutant: return_when=FIRST_COMPLETED
WaitOver_FirstCompleted ==
    (\E t \in Tasks : Finished(futs[t])) \/ waited >= Deadline

\* the condition on which concurrent.futures.wait(..., timeout=30,
\* return_when=FIRST_EXCEPTION) returns
WaitOver == AllFinished \/ SomeRaised \/ waited >= Deadline


(***************************************************************************)
(* Python float arithmetic (IEEE-754 binary64, round to nearest, ties to   *)
(* even).  A float is [s, m, e] with value s * m * 2^e; m is a natural     *)
(* number of any size, held as a little-endian sequence of limbs.          *)
(***************************************************************************)

\* limb radix 2^15: a product of two limbs plus carries stays below 2^31
LimbBits == 15

Radix == 32768

\* the significand of a binary64 has 53 bits
Precision == 53

RECURSIVE Pow2(_)
Pow2(n) == IF n = 0 THEN 1 ELSE 2 * Pow2(n - 1)

RECURSIVE Trim(_)
Trim(a) ==
    IF a = <<>> THEN a
    ELSE IF a[Len(a)] = 0 THEN Trim(SubSeq(a, 1, Len(a) - 1))
    ELSE a

RECURSIVE NatToBig(_)
NatToBig(n) == IF n = 0 THEN <<>> ELSE <<n % Radix>> \o NatToBig(n \div Radix)

RECURSIVE BigToNat(_)
BigToNat(a) == IF a = <<>> THEN 0 ELSE a[1] + Radix * BigToNat(Tail(a))

RECURSIVE SmallBitLen(_)
SmallBitLen(n) == IF n = 0 THEN 0 ELSE 1 + SmallBitLen(n \div 2)

BitLen(a) ==
    IF a = <<>> THEN 0 ELSE LimbBits * (Len(a) - 1) + SmallBitLen(a[Len(a)])

RECURSIVE AddCarry(_, _, _)
AddCarry(a, b, c) ==
    IF a = <<>> /\ b = <<>> THEN (IF c = 0 THEN <<>> ELSE <<c>>)
    ELSE LET x == IF a = <<>> THEN 0 ELSE a[1]
             y == IF b = <<>> THEN 0 ELSE b[1]
             t == x + y + c
         IN <<t % Radix>> \o
            AddCarry(IF a = <<>> THEN a ELSE Tail(a),
                     IF b = <<>> THEN b ELSE Tail(b), t \div Radix)

BigAdd(a, b) == AddCarry(a, b, 0)

RECURSIVE MulLimb(_, _, _)
MulLimb(a, d, c) ==
    IF a = <<>> THEN (IF c = 0 THEN <<>> ELSE <<c>>)
    ELSE LET t == a[1] * d + c
         IN <<t % Radix>> \o MulLimb(Tail(a), d, t \div Radix)

RECURSIVE BigMul(_, _)
BigMul(a, b) ==
    IF b = <<>> THEN <<>>
    ELSE Trim(BigAdd(MulLimb(a, b[1], 0), <<0>> \o BigMul(a, Tail(b))))

\* a * 2^n
ShiftLeft(a, n) ==
    IF a = <<>> THEN a
    ELSE [i \in 1..(n \div LimbBits) |-> 0] \o MulLimb(a, Pow2(n % LimbBits), 0)

\* quotient and remainder of a by a small d (d * Radix < 2^31), from the
\* most significant limb down
RECURSIVE DivLimb(_, _, _)
DivLimb(a, d, r) ==
    IF a = <<>> THEN [q |-> <<>>, r |-> r]
    ELSE LET t == r * Radix + a[Len(a)]
             rest == DivLimb(SubSeq(a, 1, Len(a) - 1), d, t % d)
         IN [q |-> rest.q \o <<t \div d>>, r |-> rest.r]

BigDivSmall(a, d) ==
    LET x == DivLimb(a, d, 0) IN [q |-> Trim(x.q), r |-> x.r]

\* floor(a / 2^n)
ShiftRight(a, n) ==
    LET k == n \div LimbBits
        dropped == IF k >= Len(a) THEN <<>> ELSE SubSeq(a, k + 1, Len(a))
    IN BigDivSmall(dropped, Pow2(n % LimbBits)).q

\* bit i (from 0) of a
BitAt(a, i) ==
    LET k == i \div LimbBits + 1
    IN IF k > Len(a) THEN 0 ELSE (a[k] \div Pow2(i % LimbBits)) % 2

\* some bit below bit n of a is set
LowBitsSet(a, n) ==
    LET k == n \div LimbBits
    IN \/ \E i \in 1..k : i <= Len(a) /\ a[i] # 0
       \/ k + 1 <= Len(a) /\ a[k + 1] % Pow2(n % LimbBits) # 0

\* a / 2^n rounded to the nearest integer, ties to even; sticky says that
\* the exact value lies strictly above a
RoundShift(a, n, sticky) ==
    IF n <= 0 THEN a
    ELSE LET q == ShiftRight(a, n)
             half == BitAt(a, n - 1) = 1
             below == LowBitsSet(a, n - 1) \/ sticky
             up == half /\ (below \/ BitAt(q, 0) = 1)
         IN IF up THEN Trim(BigAdd(q, <<1>>)) ELSE q

\* the binary64 nearest to s * m * 2^e (plus a sticky remainder)
Rounded(s, m, e, sticky) ==
    LET n == BitLen(m) - Precision
    IN IF n <= 0 THEN [s |-> s, m |-> m, e |-> e]
       ELSE [s |-> s, m |-> RoundShift(m, n, sticky), e |-> e + n]

\* float(n) for an int n
FromInt(n) ==
    Rounded(IF n < 0 THEN -1 ELSE 1, NatToBig(IF n < 0 THEN -n ELSE n), 0, FALSE)

\* x * y
FMul(x, y) == Rounded(x.s * y.s, BigMul(x.m, y.m), x.e + y.e, FALSE)

\* x / d for a small positive int d
FDivInt(x, d) ==
    IF x.m = <<>> THEN x
    ELSE LET k == Precision + 2 + SmallBitLen(d)
             qr == BigDivSmall(ShiftLeft(x.m, k), d)
         IN Rounded(x.s, qr.q, x.e - k, qr.r # 0)

\* round(x): the nearest int, ties to even
PyRound(x) ==
    LET mag == IF x.e >= 0 THEN ShiftLeft(x.m, x.e)
               ELSE RoundShift(x.m, -x.e, FALSE)
    IN x.s * BigToNat(mag)

\* int(x): truncation toward zero
PyInt(x) ==
    LET mag == IF x.e >= 0 THEN ShiftLeft(x.m, x.e) ELSE ShiftRight(x.m, -x.e)
    IN x.s * BigToNat(mag)

\* the float a decimal literal n/d denotes (d a power of ten): the binary64
\* nearest to n/d, which is also what the division n / d yields
Dec(n, d) == FDivInt(FromInt(n), d)

(***************************************************************************)
(* Python values: None, an int, a str (a sequence of characters)           *)
(***************************************************************************)
None == [t |-> "none"]

IntVal(n) == [t |-> "int", n |-> n]

StrVal(chars) == [t |-> "str", s |-> chars]

Digits == <<"0", "1", "2", "3", "4", "5", "6", "7", "8", "9">>

DigitChars == {Digits[i] : i \in 1..Len(Digits)}

DigitValue(c) == (CHOOSE i \in 1..Len(Digits) : Digits[i] = c) - 1

IsSpace(c) == c = " "

\* str.strip()
RECURSIVE Strip(_)
Strip(s) ==
    IF s = <<>> THEN s
    ELSE IF IsSpace(s[1]) THEN Strip(Tail(s))
    ELSE IF IsSpace(s[Len(s)]) THEN Strip(SubSeq(s, 1, Len(s) - 1))
    ELSE s

\* str.upper(), on the letters the model's texts use
UpperChar(c) ==
    CASE c = "a" -> "A" [] c = "b" -> "B" [] c = "c" -> "C" [] c = "d" -> "D"
      [] c = "e" -> "E" [] c = "f" -> "F" [] c = "x" -> "X" [] OTHER -> c

Upper(s) == [i \in 1..Len(s) |-> UpperChar(s[i])]

\* s.replace(",", "")
RemoveCommas(s) == SelectSeq(s, LAMBDA c : c # ",")

\* str(n) for an int n
RECURSIVE NatText(_)
NatText(n) ==
    IF n < 10 THEN <<Digits[n + 1]>> ELSE NatText(n \div 10) \o <<Digits[(n % 10) + 1]>>

IntText(n) == IF n < 0 THEN <<"-">> \o NatText(-n) ELSE NatText(n)

\* str(x)
PyStr(x) == IF x.t = "int" THEN IntText(x.n) ELSE x.s

RECURSIVE DigitsValue(_)
DigitsValue(s) ==
    IF s = <<>> THEN 0 ELSE 10 * DigitsValue(SubSeq(s, 1, Len(s) - 1)) + DigitValue(s[Len(s)])

RECURSIVE Pow10(_)
Pow10(n) == IF n = 0 THEN 1 ELSE 10 * Pow10(n - 1)

\* float(s) for a text of digits, signs, points and other characters: the
\* value, or "error" for the ValueError float raises.  (Exponents, inf, nan
\* and underscores need characters the model's texts do not use.)
ParseFloat(s) ==
    LET signed == s # <<>> /\ s[1] \in {"-", "+"}
        body == IF signed THEN Tail(s) ELSE s
        points == {i \in 1..Len(body) : body[i] = "."}
        digits == SelectSeq(body, LAMBDA c : c # ".")
        wellFormed == /\ digits # <<>>
                      /\ \A i \in 1..Len(digits) : digits[i] \in DigitChars
                      /\ Cardinality(points) <= 1
        fracLen == IF points = {} THEN 0 ELSE Len(body) - (CHOOSE i \in points : TRUE)
        neg == signed /\ s[1] = "-"
    IN IF ~wellFormed THEN [ok |-> FALSE]
       ELSE [ok |-> TRUE,
             v |-> LET x == FDivInt(FromInt(DigitsValue(digits)), Pow10(fracLen))
                   IN [x EXCEPT !.s = IF neg THEN -1 ELSE 1]]

\* mutant: a value that cannot be converted becomes 0
ToIntOrNone_ZeroOnError(x) ==
    IF x = None THEN None
    ELSE LET f == ParseFloat(Strip(RemoveCommas(PyStr(x))))
         IN IF f.ok THEN IntVal(PyInt(f.v)) ELSE IntVal(0)

\* _to_int_or_none
ToIntOrNone(x) ==
    IF x = None THEN None
    ELSE LET f == ParseFloat(Strip(RemoveCommas(PyStr(x))))
         IN IF f.ok THEN IntVal(PyInt(f.v)) ELSE None

(***************************************************************************)
(* Grade -> price multiplier, and the estimator                            *)
(***************************************************************************)

\* `grade or ""`
GradeOrEmpty(g) == IF g.t = "str" THEN g.s ELSE <<>>

\* the table of _grade_to_multiplier, in hundredths
MultiplierTable(g) ==
    CASE g = <<"A">> -> 100
      [] g = <<"B">> -> 95
      [] g = <<"C">> -> 90
      [] g = <<"D">> -> 80
      [] g = <<"E">> -> 65
      [] OTHER -> 0

\* mutant: an unknown grade is treated as A
DefaultMultiplier_A == MultiplierTable(<<"A">>)

\* table.get(g, 0.90): unknown -> treat as C
DefaultMultiplier == 90

\* _grade_to_multiplier, in hundredths
GradeToHundredths(grade) ==
    LET g == Upper(Strip(GradeOrEmpty(grade)))
    IN IF MultiplierTable(g) # 0 THEN MultiplierTable(g) ELSE DefaultMultiplier

\* _grade_to_multiplier: the float of the table's literal
GradeToMultiplier(grade) == Dec(GradeToHundredths(grade), 100)

\* _round_to_unit(x, unit): int(round(x / unit) * unit)
RoundToUnit(x, unit) == PyRound(FDivInt(x, unit)) * unit

\* raw = baseline_price * float(base_bias) * dmg_mult * soil_mult
RawPrice(baseline_price, dgrade, sgrade, bias) ==
    LET dmg_mult == GradeToMultiplier(dgrade)
        soil_mult == GradeToMultiplier(sgrade)
    IN FMul(FMul(FMul(FromInt(baseline_price), Dec(bias[1], bias[2])),
                 dmg_mult), soil_mult)

\* estimate_purchase_price_by_grade
EstimatePurchasePriceByGrade(baseline_price, dgrade, sgrade, bias) ==
    RoundToUnit(RawPrice(baseline_price, dgrade, sgrade, bias), 100)

(***************************************************************************)
(* Initial state: a constructed SupervisorAgent, no call in progress.      *)
(***************************************************************************)
SupInit ==
    /\ pc = "idle"
    /\ img \in Images
    /\ waited = 0
    /\ futs = [t \in Tasks |-> "none"]
    /\ done = {}
    /\ timedOut = FALSE
    /\ idx = 1
    /\ results = [t \in Tasks |-> "absent"]
    /\ fb = [t \in Tasks |-> "no"]
    /\ parCalls = [t \in Tasks |-> 0]
    /\ fbCalls = [t \in Tasks |-> 0]

\* no pipeline run in progress
PipeIdle ==
    /\ ppc = "idle"
    /\ brief_used = None
    /\ readable = TRUE
    /\ used_avg = None
    /\ dmg_grade = None
    /\ soil_grade = None
    /\ base_bias = <<7, 10>>
    /\ purchase_price = None
    /\ estCalls = 0

\* no agent has been constructed or called
RepIdle ==
    /\ api_key = TRUE
    /\ replies = [t \in Tasks |-> None]
    /\ responses = [t \in Tasks |-> None]
    /\ report = None
    /\ attrs = None
    /\ error = "none"
    /\ agentsRun = FALSE

\* no function is being called on its own
LabIdle ==
    /\ lpc = "idle"
    /\ call = None
    /\ ret = None

Init == SupInit /\ PipeIdle /\ RepIdle /\ LabIdle

(***************************************************************************)
(* The calling thread                                                      *)
(***************************************************************************)

\* results = {}; the executor is created and the four analyze calls submitted
Submit ==
    /\ pc = "idle"
    /\ futs' = [t \in Tasks |-> "queued"]
    /\ pc' = "wait"
    /\ UNCHANGED <<img, waited, done, timedOut, idx, results, fb, parCalls, fbCalls>>
    /\ UNCHANGED <<pipeVars, repVars, labVars>>

\* one time unit passes while the caller is blocked in wait
Tick ==
    /\ pc = "wait"
    /\ ~WaitOver
    /\ waited' = waited + 1
    /\ UNCHANGED <<pc, img, futs, done, timedOut, idx, results, fb, parCalls, fbCalls>>
    /\ UNCHANGED <<pipeVars, repVars, labVars>>

\* wait returns (done, not_done)
WaitReturn ==
    /\ pc = "wait"
    /\ WaitOver
    /\ done' = {t \in Tasks : Finished(futs[t])}
    /\ timedOut' = (~AllFinished /\ ~SomeRaised)
    /\ pc' = "collect"
    /\ idx' = 1
    /\ UNCHANGED <<img, waited, futs, results, fb, parCalls, fbCalls>>
    /\ UNCHANGED <<pipeVars, repVars, labVars>>

\* mutant: the loop tests fut.done() alone
Collectable_DoneNow(t) == Finished(futs[t])

\* the test `fut in done and fut.done()` of the collection loop
Collectable(t) == t \in done /\ Finished(futs[t])

\* mutant: the payload is dropped
CollectValue_Dropped(f) == "None"

\* fut.result() inside try/except: the payload, or None when it raised
CollectValue(f) == IF f = "ok" THEN "par" ELSE "None"

\* Future.cancel(): only a future that has not started is cancelled
CancelFuture(f) == IF f = "queued" THEN "cancelled" ELSE f

\* one iteration of `for name, fut in futs.items()`
Collect ==
    /\ pc = "collect"
    /\ idx <= Len(TaskOrder)
    /\ LET t == TaskOrder[idx] IN
         IF Collectable(t)
           THEN /\ results' = [results EXCEPT ![t] = CollectValue(futs[t])]
                /\ UNCHANGED futs
           ELSE /\ futs' = [futs EXCEPT ![t] = CancelFuture(futs[t])]
                /\ UNCHANGED results
    /\ idx' = idx + 1
    /\ UNCHANGED <<pc, img, waited, done, timedOut, fb, parCalls, fbCalls>>
    /\ UNCHANGED <<pipeVars, repVars, labVars>>

\* mutant: ex.shutdown(wait=True)
ShutdownMayReturn_Wait == AllFinished

\* what ex.shutdown(wait=...) waits for: nothing, with wait=False
ShutdownMayReturn == TRUE

\* finally: ex.shutdown(wait=False)
Shutdown ==
    /\ pc = "collect"
    /\ idx > Len(TaskOrder)
    /\ ShutdownMayReturn
    /\ pc' = "fallback"
    /\ idx' = 1
    /\ UNCHANGED <<img, waited, futs, done, timedOut, results, fb, parCalls, fbCalls>>
    /\ UNCHANGED <<pipeVars, repVars, labVars>>

\* mutant: the guard is `name not in results`
NeedsFallback_AbsentOnly(t) == results[t] = "absent"

\* the guard `if not results.get(name)` of the fallback chain
NeedsFallback(t) == ~Truthy(results[t])

\* the guard is false: the chain moves on to the next task
FallbackSkip ==
    /\ pc = "fallback"
    /\ idx <= Len(TaskOrder)
    /\ ~NeedsFallback(TaskOrder[idx])
    /\ idx' = idx + 1
    /\ UNCHANGED <<pc, img, waited, futs, done, timedOut, results, fb, parCalls, fbCalls>>
    /\ UNCHANGED <<pipeVars, repVars, labVars>>

\* the guard is true: analyze is called on the calling thread
FallbackCall ==
    /\ pc = "fallback"
    /\ idx <= Len(TaskOrder)
    /\ NeedsFallback(TaskOrder[idx])
    /\ fb' = [fb EXCEPT ![TaskOrder[idx]] = "running"]
    /\ fbCalls' = [fbCalls EXCEPT ![TaskOrder[idx]] = @ + 1]
    /\ pc' = "fbcall"
    /\ UNCHANGED <<img, waited, futs, done, timedOut, idx, results, parCalls>>
    /\ UNCHANGED <<pipeVars, repVars, labVars>>

\* the fallback analyze returns: results[name] = its payload
FallbackReturn ==
    /\ pc = "fbcall"
    /\ "ok" \in AnalyzeOutcomes(TaskOrder[idx], img)
    /\ fb' = [fb EXCEPT ![TaskOrder[idx]] = "returned"]
    /\ results' = [results EXCEPT ![TaskOrder[idx]] = "fb"]
    /\ idx' = idx + 1
    /\ pc' = "fallback"
    /\ UNCHANGED <<img, waited, futs, done, timedOut, parCalls, fbCalls>>
    /\ UNCHANGED <<pipeVars, repVars, labVars>>

\* the fallback analyze raises: nothing catches it, the call ends by raising
FallbackRaise ==
    /\ pc = "fbcall"
    /\ "exc" \in AnalyzeOutcomes(TaskOrder[idx], img)
    /\ fb' = [fb EXCEPT ![TaskOrder[idx]] = "raised"]
    /\ pc' = "raised"
    /\ UNCHANGED <<img, waited, futs, done, timedOut, idx, results, parCalls, fbCalls>>
    /\ UNCHANGED <<pipeVars, repVars, labVars>>

\* mutant: the chain returns before it has reached every task
Return_BeforeChainEnds ==
    /\ pc = "fallback"
    /\ pc' = "returned"
    /\ UNCHANGED <<img, waited, futs, done, timedOut, idx, results, fb, parCalls, fbCalls>>
    /\ UNCHANGED <<pipeVars, repVars, labVars>>

\* return results
Return ==
    /\ pc = "fallback"
    /\ idx > Len(TaskOrder)
    /\ pc' = "returned"
    /\ UNCHANGED <<img, waited, futs, done, timedOut, idx, results, fb, parCalls, fbCalls>>
    /\ UNCHANGED <<pipeVars, repVars, labVars>>

(***************************************************************************)
(* The executor's worker threads                                           *)
(***************************************************************************)

\* a worker takes the work item and starts analyze
WorkerStart(t) ==
    /\ futs[t] = "queued"
    /\ futs' = [futs EXCEPT ![t] = "running"]
    /\ parCalls' = [parCalls EXCEPT ![t] = @ + 1]
    /\ UNCHANGED <<pc, img, waited, done, timedOut, idx, results, fb, fbCalls>>
    /\ UNCHANGED <<pipeVars, repVars, labVars>>

\* the parallel analyze ends; the outcome is stored in the future
WorkerFinish(t) ==
    /\ futs[t] = "running"
    /\ \E o \in AnalyzeOutcomes(t, img) :
         futs' = [futs EXCEPT ![t] = o]
    /\ UNCHANGED <<pc, img, waited, done, timedOut, idx, results, fb, parCalls, fbCalls>>
    /\ UNCHANGED <<pipeVars, repVars, labVars>>

MainStep ==
    \/ Submit
    \/ WaitReturn
    \/ Collect
    \/ Shutdown
    \/ FallbackSkip
    \/ FallbackCall
    \/ Return

Next ==
    \/ MainStep
    \/ Tick
    \/ FallbackReturn
    \/ FallbackRaise
    \/ \E t \in Tasks : WorkerStart(t)
    \/ \E t \in Tasks : WorkerFinish(t)

Spec == Init /\ [][Next]_vars

\* The calling thread keeps running and time passes; nothing obliges a
\* worker's analyze, or a fallback analyze, to ever come back.
FairSpec == Spec /\ WF_vars(MainStep) /\ WF_vars(Tick)

TypeOK ==
    /\ pc \in {"idle", "wait", "collect", "fallback", "fbcall", "returned", "raised"}
    /\ img \in Images
    /\ waited \in 0..Deadline
    /\ futs \in [Tasks -> {"none", "queued", "running", "ok", "exc", "cancelled"}]
    /\ done \subseteq Tasks
    /\ timedOut \in BOOLEAN
    /\ idx \in 1..(Len(TaskOrder) + 1)
    /\ results \in [Tasks -> {"absent", "None", "par", "fb"}]
    /\ fb \in [Tasks -> {"no", "running", "returned", "raised"}]
    /\ parCalls \in [Tasks -> 0..1]
    /\ fbCalls \in [Tasks -> 0..1]


(***************************************************************************)
(* run_full_pipeline (ai_agent_output.py)                                  *)
(***************************************************************************)

\* longest text the similarity collaborator's price comes as
MaxTextLen == 3

\* characters of those texts: digits, thousands comma, decimal point, sign,
\* blank, and a letter
PriceChars == {"0", "1", ",", ".", "-", " ", "x"}

RECURSIVE TextsOfLen(_)
TextsOfLen(n) ==
    IF n = 0 THEN {<<>>}
    ELSE {<<c>> \o w : c \in PriceChars, w \in TextsOfLen(n - 1)}

PriceTexts == UNION {TextsOfLen(n) : n \in 0..MaxTextLen}

\* what brief.get("similar_used_price") can be: absent, a number, a text
BriefValues ==
    {None} \cup {IntVal(n) : n \in {0, 7, 80, 3500, 10000}}
           \cup {StrVal(w) : w \in PriceTexts}

GradeLetters == {"A", "B", "C", "D", "E"}

\* the default of the --base-bias option and of run_full_pipeline
DefaultBias == <<7, 10>>

\* the test `used_avg is not None`
HasBaseline(u) == u # None

PipeInit ==
    /\ SupInit
    /\ RepIdle
    /\ LabIdle
    /\ img = "bytes"
    /\ ppc = "start"
    /\ brief_used \in BriefValues
    /\ readable \in BOOLEAN
    /\ base_bias = DefaultBias
    /\ used_avg = None
    /\ dmg_grade = None
    /\ soil_grade = None
    /\ purchase_price = None
    /\ estCalls = 0

\* brief = run_similarity_brief(...); used_avg = _to_int_or_none(...)
PipeBrief ==
    /\ ppc = "start"
    /\ used_avg' = ToIntOrNone(brief_used)
    /\ ppc' = "condition"
    /\ UNCHANGED <<brief_used, readable, dmg_grade, soil_grade, base_bias,
                   purchase_price, estCalls>>
    /\ UNCHANGED <<supVars, repVars, labVars>>

\* run_condition_agents_absolute: the image cannot be read, both grades None
PipeNoImage ==
    /\ ppc = "condition"
    /\ ~readable
    /\ dmg_grade' = None
    /\ soil_grade' = None
    /\ ppc' = "price"
    /\ UNCHANGED <<brief_used, readable, used_avg, base_bias, purchase_price, estCalls>>
    /\ UNCHANGED <<supVars, repVars, labVars>>

\* run_condition_agents_absolute: SupervisorAgent.process returns the two
\* agents' absolute grades
PipeGraded ==
    /\ ppc = "condition"
    /\ readable
    /\ \E d \in GradeLetters, g \in GradeLetters :
         /\ dmg_grade' = StrVal(<<d>>)
         /\ soil_grade' = StrVal(<<g>>)
    /\ ppc' = "price"
    /\ UNCHANGED <<brief_used, readable, used_avg, base_bias, purchase_price, estCalls>>
    /\ UNCHANGED <<supVars, repVars, labVars>>

\* run_condition_agents_absolute: SupervisorAgent() or process raises
PipeAgentsRaise ==
    /\ ppc = "condition"
    /\ readable
    /\ ppc' = "raised"
    /\ UNCHANGED <<brief_used, readable, used_avg, dmg_grade, soil_grade, base_bias,
                   purchase_price, estCalls>>
    /\ UNCHANGED <<supVars, repVars, labVars>>

\* if used_avg is not None: purchase_price = estimate_...(...); return {...}
PipeEstimate ==
    /\ ppc = "price"
    /\ HasBaseline(used_avg)
    /\ purchase_price' =
         IntVal(EstimatePurchasePriceByGrade(used_avg.n, dmg_grade, soil_grade, base_bias))
    /\ estCalls' = estCalls + 1
    /\ ppc' = "returned"
    /\ UNCHANGED <<brief_used, readable, used_avg, dmg_grade, soil_grade, base_bias>>
    /\ UNCHANGED <<supVars, repVars, labVars>>

\* used_avg is None: purchase_price stays None; return {...}
PipeNoBaseline ==
    /\ ppc = "price"
    /\ ~HasBaseline(used_avg)
    /\ ppc' = "returned"
    /\ UNCHANGED <<brief_used, readable, used_avg, dmg_grade, soil_grade, base_bias,
                   purchase_price, estCalls>>
    /\ UNCHANGED <<supVars, repVars, labVars>>

PipeNext ==
    \/ PipeBrief
    \/ PipeNoImage
    \/ PipeGraded
    \/ PipeAgentsRaise
    \/ PipeEstimate
    \/ PipeNoBaseline

PipeSpec == PipeInit /\ [][PipeNext]_vars

(***************************************************************************)
(* estimate_purchase_price_by_grade on its own                             *)
(***************************************************************************)

\* baselines tried: the multiples of BaselineStep up to MaxBaselineSteps steps
BaselineStep == 125

MaxBaselineSteps == 80

Baselines == {k * BaselineStep : k \in 0..MaxBaselineSteps}

\* grades tried: None, the five letters, lower case, padded, unknown, empty
GradeInputs ==
    {None} \cup {StrVal(<<c>>) : c \in GradeLetters}
           \cup {StrVal(<<>>), StrVal(<<"b">>), StrVal(<<" ", "D", " ">>),
                 StrVal(<<"F">>), StrVal(<<"A", "B">>)}

\* base_bias values tried
Biases == {<<7, 10>>, <<5, 10>>, <<1, 1>>}

PriceInit ==
    /\ SupInit
    /\ RepIdle
    /\ LabIdle
    /\ img = "bytes"
    /\ ppc = "estimate"
    /\ brief_used = None
    /\ readable = TRUE
    /\ used_avg \in {IntVal(b) : b \in Baselines}
    /\ dmg_grade \in GradeInputs
    /\ soil_grade \in GradeInputs
    /\ base_bias \in Biases
    /\ purchase_price = None
    /\ estCalls = 0

\* one call of estimate_purchase_price_by_grade
EstimateCall ==
    /\ ppc = "estimate"
    /\ purchase_price' =
         IntVal(EstimatePurchasePriceByGrade(used_avg.n, dmg_grade, soil_grade, base_bias))
    /\ estCalls' = estCalls + 1
    /\ ppc' = "estimated"
    /\ UNCHANGED <<brief_used, readable, used_avg, dmg_grade, soil_grade, base_bias>>
    /\ UNCHANGED <<supVars, repVars, labVars>>

PriceNext == EstimateCall

PriceSpec == PriceInit /\ [][PriceNext]_vars

(***************************************************************************)
(* More of Python's values.  A str is a sequence of units: a unit is one   *)
(* character (a Hangul syllable is written by its romanisation, "h_sim"),  *)
(* or a word that no test in the code looks inside ("robot", "type").      *)
(* A str that holds a model reply or a JSON document is kept as the        *)
(* sequence of its JSON lexemes.                                           *)
(***************************************************************************)

BoolVal(b) == [t |-> "bool", b |-> b]

\* a float with an integral value
FloatVal(n) == [t |-> "float", n |-> n]

ListVal(items) == [t |-> "list", items |-> items]

\* a dict: its keys in insertion order, and their values
DictVal(keys, vals) == [t |-> "dict", keys |-> keys, vals |-> vals]

EmptyDict == DictVal(<<>>, <<>>)

\* a str holding JSON lexemes
TextVal(toks) == [t |-> "text", toks |-> toks]

\* bool(x), the truth value `x or y` and `if x` test
PyTruthy(x) ==
    CASE x.t = "none" -> FALSE
      [] x.t = "bool" -> x.b
      [] x.t = "int" -> x.n # 0
      [] x.t = "float" -> x.n # 0
      [] x.t = "str" -> x.s # <<>>
      [] x.t = "text" -> x.toks # <<>>
      [] x.t = "list" -> x.items # <<>>
      [] x.t = "dict" -> x.keys # <<>>

\* x or y
PyOr(x, y) == IF PyTruthy(x) THEN x ELSE y

DictHas(d, k) == \E i \in 1..Len(d.keys) : d.keys[i] = k

\* d.get(k, default)
DictGet(d, k, default) ==
    IF DictHas(d, k)
      THEN d.vals[CHOOSE i \in 1..Len(d.keys) : d.keys[i] = k]
      ELSE default

\* d[k] = v
DictSet(d, k, v) ==
    IF DictHas(d, k)
      THEN [d EXCEPT !.vals[CHOOSE i \in 1..Len(d.keys) : d.keys[i] = k] = v]
      ELSE DictVal(Append(d.keys, k), Append(d.vals, v))

\* a dict literal {k1: v1, k2: v2, ...}
RECURSIVE DictOf(_)
DictOf(pairs) ==
    IF pairs = <<>> THEN EmptyDict
    ELSE DictSet(DictOf(SubSeq(pairs, 1, Len(pairs) - 1)),
                 pairs[Len(pairs)][1], pairs[Len(pairs)][2])

Lowers == <<"a", "b", "c", "d", "e", "f", "g", "h", "i", "j", "k", "l", "m",
            "n", "o", "p", "q", "r", "s", "t", "u", "v", "w", "x", "y", "z",
            "mixed", "plastic">>

Uppers == <<"A", "B", "C", "D", "E", "F", "G", "H", "I", "J", "K", "L", "M",
            "N", "O", "P", "Q", "R", "S", "T", "U", "V", "W", "X", "Y", "Z",
            "Mixed", "PLASTIC">>

\* str.lower()
LowerChar(c) ==
    IF \E i \in 1..Len(Uppers) : Uppers[i] = c
      THEN Lowers[CHOOSE i \in 1..Len(Uppers) : Uppers[i] = c]
      ELSE c

Lower(s) == [i \in 1..Len(s) |-> LowerChar(s[i])]

\* the test `k in t` of two strs
Contains(t, k) ==
    \E i \in 0..(Len(t) - Len(k)) : SubSeq(t, i + 1, i + Len(k)) = k

(***************************************************************************)
(* json.loads and json.dumps over lexemes: punctuation, string, number,    *)
(* bare word (null, true, false, or anything else, which is not JSON) and  *)
(* the ``` fence of a Markdown code block, and line breaks, the only white *)
(* space kept.  Numbers are naturals, or integral floats written ".0".     *)
(***************************************************************************)

Punct(c) == [k |-> "p", v |-> <<c>>]

StrTok(s) == [k |-> "s", v |-> s]

NumTok(digits) == [k |-> "n", v |-> digits]

Word(w) == [k |-> "w", v |-> <<w>>]

Fence == [k |-> "fence", v |-> <<>>]

\* a line break between lexemes
Newline == [k |-> "nl", v |-> <<>>]

ParseFail == [ok |-> FALSE, v |-> None, next |-> 0]

Parsed(v, next) == [ok |-> TRUE, v |-> v, next |-> next]

IsPunct(toks, i, c) == i <= Len(toks) /\ toks[i] = Punct(c)

\* the value of a number lexeme, or a failure
ParseNumber(digits, next) ==
    LET points == {i \in 1..Len(digits) : digits[i] = "."}
        allDigits(s) == s # <<>> /\ \A i \in 1..Len(s) : s[i] \in DigitChars
    IN IF points = {}
         THEN IF allDigits(digits) THEN Parsed(IntVal(DigitsValue(digits)), next)
              ELSE ParseFail
       ELSE IF Cardinality(points) > 1 THEN ParseFail
       ELSE LET p == CHOOSE i \in points : TRUE
                whole == SubSeq(digits, 1, p - 1)
                frac == SubSeq(digits, p + 1, Len(digits))
            IN IF allDigits(whole) /\ allDigits(frac) /\ DigitsValue(frac) = 0
                 THEN Parsed(FloatVal(DigitsValue(whole)), next)
                 ELSE ParseFail

RECURSIVE ParseValue(_, _)
RECURSIVE ParseItems(_, _, _)
RECURSIVE ParsePairs(_, _, _)

\* the JSON value that starts at lexeme i, and the index after it
ParseValue(toks, i) ==
    IF i > Len(toks) THEN ParseFail
    ELSE LET tk == toks[i]
         IN CASE tk.k = "s" -> Parsed(StrVal(tk.v), i + 1)
              [] tk.k = "n" -> ParseNumber(tk.v, i + 1)
              [] tk.k = "w" ->
                   IF tk.v = <<"null">> THEN Parsed(None, i + 1)
                   ELSE IF tk.v = <<"true">> THEN Parsed(BoolVal(TRUE), i + 1)
                   ELSE IF tk.v = <<"false">> THEN Parsed(BoolVal(FALSE), i + 1)
                   ELSE ParseFail
              [] tk = Punct("[") ->
                   IF IsPunct(toks, i + 1, "]") THEN Parsed(ListVal(<<>>), i + 2)
                   ELSE ParseItems(toks, i + 1, <<>>)
              [] tk = Punct("{") ->
                   IF IsPunct(toks, i + 1, "}") THEN Parsed(EmptyDict, i + 2)
                   ELSE ParsePairs(toks, i + 1, EmptyDict)
              [] OTHER -> ParseFail

ParseItems(toks, i, acc) ==
    LET x == ParseValue(toks, i)
    IN IF ~x.ok THEN ParseFail
       ELSE IF IsPunct(toks, x.next, ",")
         THEN ParseItems(toks, x.next + 1, Append(acc, x.v))
       ELSE IF IsPunct(toks, x.next, "]")
         THEN Parsed(ListVal(Append(acc, x.v)), x.next + 1)
       ELSE ParseFail

ParsePairs(toks, i, acc) ==
    IF ~(i <= Len(toks) /\ toks[i].k = "s" /\ IsPunct(toks, i + 1, ":"))
      THEN ParseFail
    ELSE LET x == ParseValue(toks, i + 2)
         IN IF ~x.ok THEN ParseFail
            ELSE IF IsPunct(toks, x.next, ",")
              THEN ParsePairs(toks, x.next + 1, DictSet(acc, toks[i].v, x.v))
            ELSE IF IsPunct(toks, x.next, "}")
              THEN Parsed(DictSet(acc, toks[i].v, x.v), x.next + 1)
            ELSE ParseFail

\* json.loads(x): the value, or not ok for the exception it raises (a
\* TypeError for None, a JSONDecodeError for a text that is not one JSON
\* document)
JsonLoads(x) ==
    IF x.t # "text" THEN [ok |-> FALSE, v |-> None]
    ELSE LET toks == SelectSeq(x.toks, LAMBDA tk : tk # Newline)
             r == ParseValue(toks, 1)
         IN IF r.ok /\ r.next = Len(toks) + 1
              THEN [ok |-> TRUE, v |-> r.v]
              ELSE [ok |-> FALSE, v |-> None]

RECURSIVE DumpsValue(_)
RECURSIVE DumpsItems(_)
RECURSIVE DumpsPairs(_, _)

DumpsValue(v) ==
    CASE v.t = "none" -> <<Word("null")>>
      [] v.t = "bool" -> <<Word(IF v.b THEN "true" ELSE "false")>>
      [] v.t = "int" -> <<NumTok(NatText(v.n))>>
      [] v.t = "float" -> <<NumTok(NatText(v.n) \o <<".", "0">>)>>
      [] v.t = "str" -> <<StrTok(v.s)>>
      [] v.t = "list" -> <<Punct("[")>> \o DumpsItems(v.items) \o <<Punct("]")>>
      [] v.t = "dict" -> <<Punct("{")>> \o DumpsPairs(v.keys, v.vals) \o <<Punct("}")>>

DumpsItems(items) ==
    IF items = <<>> THEN <<>>
    ELSE IF Len(items) = 1 THEN DumpsValue(items[1])
    ELSE DumpsValue(items[1]) \o <<Punct(",")>> \o DumpsItems(Tail(items))

DumpsPairs(keys, vals) ==
    IF keys = <<>> THEN <<>>
    ELSE LET pair == <<StrTok(keys[1]), Punct(":")>> \o DumpsValue(vals[1])
         IN IF Len(keys) = 1 THEN pair
            ELSE pair \o <<Punct(",")>> \o DumpsPairs(Tail(keys), Tail(vals))

\* json.dumps(v)
JsonDumps(v) == TextVal(DumpsValue(v))

(***************************************************************************)
(* str() of a value                                                        *)
(***************************************************************************)

RECURSIVE Repr(_)
RECURSIVE ReprItems(_)
RECURSIVE ReprPairs(_, _)

\* repr(x)
Repr(x) ==
    CASE x.t = "none" -> <<"N", "o", "n", "e">>
      [] x.t = "bool" -> IF x.b THEN <<"T", "r", "u", "e">> ELSE <<"F", "a", "l", "s", "e">>
      [] x.t = "int" -> IntText(x.n)
      [] x.t = "float" -> IntText(x.n) \o <<".", "0">>
      [] x.t = "str" -> <<"'">> \o x.s \o <<"'">>
      [] x.t = "list" -> <<"[">> \o ReprItems(x.items) \o <<"]">>
      [] x.t = "dict" -> <<"{">> \o ReprPairs(x.keys, x.vals) \o <<"}">>

ReprItems(items) ==
    IF items = <<>> THEN <<>>
    ELSE IF Len(items) = 1 THEN Repr(items[1])
    ELSE Repr(items[1]) \o <<",", " ">> \o ReprItems(Tail(items))

ReprPairs(keys, vals) ==
    IF keys = <<>> THEN <<>>
    ELSE LET pair == <<"'">> \o keys[1] \o <<"'", ":", " ">> \o Repr(vals[1])
         IN IF Len(keys) = 1 THEN pair
            ELSE pair \o <<",", " ">> \o ReprPairs(Tail(keys), Tail(vals))

\* str(x) for any value
StrOf(x) == IF x.t = "str" THEN x.s ELSE Repr(x)

(***************************************************************************)
(* damage_agent_gemini.py                                                  *)
(***************************************************************************)

NoDamageLabel == <<"h_eops", "h_eum">>

FineDamageLabel == <<"h_mi", "h_se", "h_han", " ", "h_pa", "h_son">>

MinorDamageLabel == <<"h_gyeong", "h_mi", "h_han", " ", "h_pa", "h_son">>

MissingPartLabel == <<"h_bu", "h_pum", " ", "h_nu", "h_rak">>

SevereDamageLabel == <<"h_sim", "h_gak", "h_han", " ", "h_pa", "h_son">>

ALLOWED_DAMAGE ==
    <<NoDamageLabel, FineDamageLabel, MinorDamageLabel, MissingPartLabel,
      SevereDamageLabel>>

\* any(w in t for w in words)
AnyIn(words, t) == \E i \in 1..Len(words) : Contains(t, words[i])

\* _damage_to_abs
DamageToAbs(label) ==
    LET t == Strip(StrOf(PyOr(label, StrVal(<<>>))))
    IN IF Contains(t, <<"h_eops", "h_eum">>) THEN 4
       ELSE IF Contains(t, <<"h_mi", "h_se">>) THEN 3
       ELSE IF Contains(t, <<"h_gyeong", "h_mi">>) THEN 2
       ELSE IF Contains(t, <<"h_bu", "h_pum", " ", "h_nu", "h_rak">>) THEN 1
       ELSE IF Contains(t, <<"h_sim", "h_gak">>) THEN 0
       ELSE 2

MissingWords ==
    <<<<"m", "i", "s", "s", "i", "n", "g">>, <<"d", "e", "t", "a", "c", "h">>,
      <<"h_nu", "h_rak">>, <<"h_bun", "h_ri">>, <<"h_ppa", "h_jim">>, <<"h_tteol", "h_eo", "h_jim">>>>

BreakWords ==
    <<<<"c", "r", "a", "c", "k">>, <<"b", "r", "e", "a", "k">>, <<"b", "r", "o", "k", "e", "n">>,
      <<"h_kkae", "h_jim">>, <<"h_geum">>, <<"h_gyun", "h_yeol">>, <<"h_bu", "h_reo", "h_jim">>>>

\* the first allowed label found in t, in the order of ALLOWED_DAMAGE
RECURSIVE FirstAllowedIn(_, _)
FirstAllowedIn(t, i) ==
    IF i > Len(ALLOWED_DAMAGE) THEN <<>>
    ELSE IF Contains(t, ALLOWED_DAMAGE[i]) THEN ALLOWED_DAMAGE[i]
    ELSE FirstAllowedIn(t, i + 1)

\* mutant: a text with a break keyword is returned as it came
NormalizeLabel_KeepsBreakText(label) ==
    LET t == Strip(StrOf(PyOr(label, StrVal(<<>>))))
        tl == Lower(t)
    IN IF Contains(t, <<"h_pan", "h_dan">>) \/ Contains(t, <<"h_bul", "h_myeong">>) \/ t = <<>>
         THEN MinorDamageLabel
       ELSE IF FirstAllowedIn(t, 1) # <<>> THEN FirstAllowedIn(t, 1)
       ELSE IF AnyIn(MissingWords, tl) THEN MissingPartLabel
       ELSE IF AnyIn(BreakWords, tl) THEN t
       ELSE MinorDamageLabel

\* _normalize_label (its last two branches return the same label)
NormalizeLabel(label) ==
    LET t == Strip(StrOf(PyOr(label, StrVal(<<>>))))
        tl == Lower(t)
    IN IF Contains(t, <<"h_pan", "h_dan">>) \/ Contains(t, <<"h_bul", "h_myeong">>) \/ t = <<>>
         THEN MinorDamageLabel
       ELSE IF FirstAllowedIn(t, 1) # <<>> THEN FirstAllowedIn(t, 1)
       ELSE IF AnyIn(MissingWords, tl) THEN MissingPartLabel
       ELSE IF AnyIn(BreakWords, tl) THEN SevereDamageLabel
       ELSE MinorDamageLabel

Min(a, b) == IF a < b THEN a ELSE b

Max(a, b) == IF a > b THEN a ELSE b

\* _score_to_grade_single (the same function in both agents)
ScoreToGradeSingle(score) ==
    LET s == Max(0, Min(4, score))
    IN CASE s = 4 -> "A" [] s = 3 -> "B" [] s = 2 -> "C" [] s = 1 -> "D" [] s = 0 -> "E"

\* _is_missing
IsMissing(x) ==
    LET s == Lower(StrOf(PyOr(x, StrVal(<<>>))))
    IN Contains(s, <<"m", "i", "s", "s", "i", "n", "g">>) \/ Contains(s, <<"d", "e", "t", "a", "c", "h", "e", "d">>)

CoreParts == <<<<"arm_left">>, <<"arm_right">>, <<"leg_left">>, <<"leg_right">>, <<"head">>>>

\* mutant: the label's score is taken as it is, without the cap of a lost
\* part and without the floor of C
PerImageScore_NoCap(damage, limb_missing, wheel_missing) ==
    LET label_severe == Contains(damage, <<"h_sim", "h_gak">>)
        base_score == DamageToAbs(StrVal(damage))
    IN IF label_severe THEN Min(base_score, 0) ELSE base_score

\* the per_image_score of DamageAgent.analyze
PerImageScore(damage, limb_missing, wheel_missing) ==
    LET label_severe == Contains(damage, <<"h_sim", "h_gak">>)
        severe == label_severe \/ limb_missing \/ wheel_missing
        base_score == DamageToAbs(StrVal(damage))
    IN IF severe THEN Min(base_score, IF ~label_severe THEN 1 ELSE 0)
       ELSE Max(base_score, 2)

(***************************************************************************)
(* soil_agent_gemini.py                                                    *)
(***************************************************************************)

\* _SOIL_LABEL_TO_ABS, in the dict's order
SOIL_LABEL_TO_ABS ==
    <<<<<<"h_kkae", "h_kkeut">>, 4>>,
      <<<<"h_bo", "h_tong">>, 3>>,
      <<<<"h_yak", "h_gan", " ", "h_deo", "h_reo", "h_um">>, 2>>,
      <<<<"h_deo", "h_reo", "h_um">>, 1>>,
      <<<<"h_mae", "h_u", " ", "h_deo", "h_reo", "h_um">>, 0>>>>

SEVERE_DIRT_KWS ==
    <<<<"h_kkeun", "h_jeok">>, <<"s", "t", "i", "c", "k", "y">>,
      <<"h_gom", "h_pang">>, <<"m", "o", "l", "d">>,
      <<"h_gi", "h_reum", "h_ttae">>,
      <<"h", "e", "a", "v", "y", " ", "s", "t", "a", "i", "n">>,
      <<"h_jji", "h_deun", "h_ttae">>, <<"h_gi", "h_reum">>,
      <<"o", "i", "l", " ", "s", "t", "a", "i", "n">>,
      <<"h_jin", "h_heuk", "h_i", " ", "h_du", "h_kkeop", "h_ge">>,
      <<"m", "u", "d", " ", "c", "a", "k", "e", "d">>>>

RECURSIVE FirstSoilKeyIn(_, _)
FirstSoilKeyIn(t, i) ==
    IF i > Len(SOIL_LABEL_TO_ABS) THEN 2
    ELSE IF Contains(t, SOIL_LABEL_TO_ABS[i][1]) THEN SOIL_LABEL_TO_ABS[i][2]
    ELSE FirstSoilKeyIn(t, i + 1)

\* _label_to_abs(s) of the soil agent, for a str or None
LabelToAbs(s) == FirstSoilKeyIn(Strip(PyOr(s, StrVal(<<>>)).s), 1)

\* the soil_abs of SoilAgent.analyze: a score of 1 with a severe-dirt
\* keyword in the lower-cased notes becomes 0
SoilAbs(soil_label, notes) ==
    IF LabelToAbs(soil_label) = 1 /\ AnyIn(SEVERE_DIRT_KWS, notes) THEN 0
    ELSE LabelToAbs(soil_label)

(***************************************************************************)
(* The four agents' analyze.  A reply is what generate_content does:       *)
(* raises, or a response whose text is None or a str.  analyze gives       *)
(* [raised, v]: it raised, or it returned the response v (token counts     *)
(* are left out).                                                          *)
(***************************************************************************)

Reply(raises, text) == [raises |-> raises, text |-> text]

Raised == [raised |-> TRUE, v |-> None]

Returned(v) == [raised |-> FALSE, v |-> v]

\* str.strip() of a text, over its lexemes
RECURSIVE StripLines(_)
StripLines(toks) ==
    IF toks = <<>> THEN toks
    ELSE IF toks[1] = Newline THEN StripLines(Tail(toks))
    ELSE IF toks[Len(toks)] = Newline THEN StripLines(SubSeq(toks, 1, Len(toks) - 1))
    ELSE toks

\* raw.strip("`")
RECURSIVE StripFences(_)
StripFences(toks) ==
    IF toks = <<>> THEN toks
    ELSE IF toks[1] = Fence THEN StripFences(Tail(toks))
    ELSE IF toks[Len(toks)] = Fence THEN StripFences(SubSeq(toks, 1, Len(toks) - 1))
    ELSE toks

\* raw = (getattr(resp, "text", None) or "").strip(), and the removal of a
\* ```json wrapper
RawOf(text) ==
    LET raw == StripLines(PyOr(text, TextVal(<<>>)).toks)
    IN IF raw # <<>> /\ raw[1] = Fence
         THEN LET inner == StripFences(raw)
                  body == StripLines(inner)
                  breaks == {i \in 1..Len(inner) : inner[i] = Newline}
              IN IF body # <<>> /\ body[1] = Word("json")
                   THEN IF breaks # {}
                          THEN SubSeq(inner, (CHOOSE i \in breaks : \A j \in breaks : i <= j) + 1,
                                      Len(inner))
                          ELSE <<>>
                   ELSE inner
         ELSE raw

\* '{"type":"others","battery":"unknown","size":"unknown"}'
DefaultTypeObj ==
    DictOf(<< <<<<"type">>, StrVal(<<"others">>)>>,
              <<<<"battery">>, StrVal(<<"unknown">>)>>,
              <<<<"size">>, StrVal(<<"unknown">>)>> >>)

\* TypeAgent.analyze: the reply's text as it came, or the default JSON text
TypeAnalyze(reply) ==
    IF reply.raises THEN Returned(JsonDumps(DefaultTypeObj))
    ELSE LET result == StripLines(RawOf(reply.text))
         IN Returned(IF result # <<>> THEN TextVal(result) ELSE JsonDumps(DefaultTypeObj))

MaterialFallback ==
    DictOf(<< <<<<"material">>, StrVal(<<"unknown">>)>>,
              <<<<"components">>, ListVal(<<>>)>>,
              <<<<"secondary_hint">>, None>>,
              <<<<"confidence">>, FloatVal(0)>>,
              <<<<"material_detail">>, StrVal(<<"fallback">>)>>,
              <<<<"notes">>, StrVal(<<>>)>> >>)

\* float(x) for a number or a text of an integral number; not ok for the
\* exception it raises
PyFloat(x) ==
    CASE x.t \in {"int", "float"} -> [ok |-> TRUE, v |-> FloatVal(x.n)]
      [] x.t = "bool" -> [ok |-> TRUE, v |-> FloatVal(IF x.b THEN 1 ELSE 0)]
      [] x.t = "str" ->
           IF ParseFloat(Strip(x.s)).ok
             THEN [ok |-> TRUE, v |-> FloatVal(PyInt(ParseFloat(Strip(x.s)).v))]
             ELSE [ok |-> FALSE, v |-> None]
      [] OTHER -> [ok |-> FALSE, v |-> None]

\* the fields MaterialAgent.analyze corrects in `parsed`, given the material
\* name, the components and the confidence it computed
CorrectedMaterial(parsed, material, components, confidence) ==
    DictSet(DictSet(DictSet(DictSet(DictSet(DictSet(parsed,
        <<"material">>, StrVal(material)),
        <<"components">>, components),
        <<"secondary_hint">>, DictGet(parsed, <<"secondary_hint">>, None)),
        <<"confidence">>, confidence),
        <<"material_detail">>,
            PyOr(DictGet(parsed, <<"material_detail">>, StrVal(<<>>)), StrVal(<<>>))),
        <<"notes">>, PyOr(DictGet(parsed, <<"notes">>, StrVal(<<>>)), StrVal(<<>>)))

\* the try block of MaterialAgent.analyze from `parsed` on: m is
\* parsed.get("material") or "unknown", c is parsed.get("components"), conf
\* is float(parsed.get("confidence", 0.0) or 0.0)
MaterialOfParsed(parsed, m, c, conf) ==
    IF m.t # "str" \/ ~conf.ok THEN Returned(JsonDumps(MaterialFallback))
    ELSE Returned(JsonDumps(CorrectedMaterial(parsed, Lower(Strip(m.s)),
            IF c.t = "list" /\ Lower(Strip(m.s)) = <<"mixed">> THEN c ELSE ListVal(<<>>),
            conf.v)))

\* json.loads(raw) if raw else {}, and {} when json.loads raises
ParsedOrEmpty(raw) ==
    IF raw # <<>> /\ JsonLoads(TextVal(raw)).ok THEN JsonLoads(TextVal(raw)).v
    ELSE EmptyDict

\* the try block of MaterialAgent.analyze once the reply has been parsed
MaterialOfReply(parsed) ==
    IF parsed.t # "dict" THEN Returned(JsonDumps(MaterialFallback))
    ELSE MaterialOfParsed(parsed,
            PyOr(DictGet(parsed, <<"material">>, None), StrVal(<<"unknown">>)),
            DictGet(parsed, <<"components">>, None),
            PyFloat(PyOr(DictGet(parsed, <<"confidence">>, FloatVal(0)), FloatVal(0))))

\* MaterialAgent.analyze: the corrected fields as a JSON text; every
\* exception after the image check gives the fallback JSON
MaterialAnalyze(reply) ==
    IF reply.raises THEN Returned(JsonDumps(MaterialFallback))
    ELSE MaterialOfReply(ParsedOrEmpty(RawOf(reply.text)))

\* the base DamageAgent.analyze assumes when the reply is not JSON
DamageFallbackBase ==
    DictOf(<< <<<<"overall">>, DictOf(<< <<<<"summary">>, StrVal(<<"parse failed: minor damage assumed">>)>> >>)>>,
              <<<<"checklist">>,
                DictOf(<< <<<<"arm_left">>, StrVal(<<"present">>)>>,
                          <<<<"arm_right">>, StrVal(<<"present">>)>>,
                          <<<<"leg_left">>, StrVal(<<"present">>)>>,
                          <<<<"leg_right">>, StrVal(<<"present">>)>>,
                          <<<<"head">>, StrVal(<<"present">>)>>,
                          <<<<"wheel_missing">>, BoolVal(FALSE)>> >>)>>,
              <<<<"damage">>, StrVal(MinorDamageLabel)>>,
              <<<<"missing_parts">>, BoolVal(FALSE)>>,
              <<<<"notes">>, StrVal(<<"fallback">>)>> >>)

\* (base.get("overall") or {}).get("summary") or ""; not ok when overall is
\* not a dict
SummaryOf(base) ==
    LET overall == PyOr(DictGet(base, <<"overall">>, None), EmptyDict)
    IN IF overall.t # "dict" THEN [ok |-> FALSE, v |-> None]
       ELSE [ok |-> TRUE, v |-> PyOr(DictGet(overall, <<"summary">>, None), StrVal(<<>>))]

\* the result dict of the damage and soil agents
GradedResult(base, summary, score) ==
    DictOf(<< <<<<"overall">>,
                DictGet(base, <<"overall">>, DictOf(<< <<<<"summary">>, summary>> >>))>>,
              <<<<"absolute_score_avg">>, FloatVal(score)>>,
              <<<<"absolute_grade">>, StrVal(<<ScoreToGradeSingle(score)>>)>> >>)

\* DamageAgent.analyze: raises when the API call fails and when the reply
\* is JSON of the wrong shape (an AttributeError of .get)
DamageAnalyze(reply) ==
    IF reply.raises THEN Raised
    ELSE LET loaded == JsonLoads(TextVal(RawOf(reply.text)))
             base == IF loaded.ok THEN loaded.v ELSE DamageFallbackBase
         IN IF base.t # "dict" THEN Raised
            ELSE LET checklist == PyOr(DictGet(base, <<"checklist">>, None), EmptyDict)
                     summary == SummaryOf(base)
                     damage == NormalizeLabel(DictGet(base, <<"damage">>, None))
                 IN IF ~summary.ok \/ checklist.t # "dict" THEN Raised
                    ELSE LET limb_missing ==
                                 \E i \in 1..Len(CoreParts) :
                                     IsMissing(DictGet(checklist, CoreParts[i], None))
                             wheel_missing ==
                                 PyTruthy(DictGet(checklist, <<"wheel_missing">>, BoolVal(FALSE)))
                         IN Returned(GradedResult(base, summary.v,
                                PerImageScore(damage, limb_missing, wheel_missing)))

\* the base SoilAgent.analyze assumes when the reply is not JSON
SoilFallbackBase ==
    DictOf(<< <<<<"overall">>, DictOf(<< <<<<"summary">>, StrVal(<<"parse failed: normal assumed">>)>> >>)>>,
              <<<<"soil">>, StrVal(<<"h_bo", "h_tong">>)>>,
              <<<<"notes">>, StrVal(<<"parse failed default">>)>> >>)

\* SoilAgent.analyze
SoilAnalyze(reply) ==
    IF reply.raises THEN Raised
    ELSE LET loaded == JsonLoads(TextVal(RawOf(reply.text)))
             base == IF loaded.ok THEN loaded.v ELSE SoilFallbackBase
         IN IF base.t # "dict" THEN Raised
            ELSE LET summary == SummaryOf(base)
                     soil_label == PyOr(DictGet(base, <<"soil">>, None), StrVal(<<"h_bo", "h_tong">>))
                     notes == PyOr(DictGet(base, <<"notes">>, None), StrVal(<<>>))
                 IN IF ~summary.ok \/ soil_label.t # "str" \/ notes.t # "str" THEN Raised
                    ELSE Returned(GradedResult(base, summary.v,
                                               SoilAbs(soil_label, Lower(notes.s))))

\* the analyze of task t
Analyze(t, reply) ==
    CASE t = "type" -> TypeAnalyze(reply)
      [] t = "material" -> MaterialAnalyze(reply)
      [] t = "damage" -> DamageAnalyze(reply)
      [] t = "soil" -> SoilAnalyze(reply)

(***************************************************************************)
(* SupervisorAgent.process after _run_parallel_with_fallback: the parse    *)
(* and the aggregation                                                     *)
(***************************************************************************)

\* _parse_json_maybe
ParseJsonMaybe(resp, default_obj) ==
    IF resp.t = "dict" THEN resp
    ELSE IF JsonLoads(resp).ok THEN JsonLoads(resp).v
    ELSE default_obj

DefaultGradedObj ==
    DictOf(<< <<<<"overall">>, DictOf(<< <<<<"summary">>, StrVal(<<"unknown">>)>> >>)>>,
              <<<<"absolute_grade">>, None>> >>)

\* ','.join(xs) for a list: not ok when an item is not a str
RECURSIVE JoinItems(_)
JoinItems(items) ==
    IF items = <<>> THEN <<>>
    ELSE IF Len(items) = 1 THEN items[1].s
    ELSE items[1].s \o <<",">> \o JoinItems(Tail(items))

Join(xs) ==
    IF xs.t = "list" /\ \A i \in 1..Len(xs.items) : xs.items[i].t = "str"
      THEN [ok |-> TRUE, v |-> JoinItems(xs.items)]
      ELSE [ok |-> FALSE, v |-> <<>>]

\* material_display
MaterialDisplay(material_result) ==
    LET m == PyOr(DictGet(material_result, <<"material">>, None), StrVal(<<"unknown">>))
        components_en == PyOr(DictGet(material_result, <<"components">>, None), ListVal(<<>>))
    IN IF m.t # "str" THEN [ok |-> FALSE, v |-> None]
       ELSE IF Lower(Strip(m.s)) = <<"mixed">> /\ PyTruthy(components_en)
         THEN IF Join(components_en).ok
                THEN [ok |-> TRUE,
                      v |-> StrVal(<<"mixed", "(">> \o Join(components_en).v \o <<")">>)]
                ELSE [ok |-> FALSE, v |-> None]
       ELSE [ok |-> TRUE, v |-> StrVal(Lower(Strip(m.s)))]

\* (x.get("overall") or {}).get("summary"); not ok when overall is not a dict
OverallSummary(x) ==
    LET overall == PyOr(DictGet(x, <<"overall">>, None), EmptyDict)
    IN IF overall.t # "dict" THEN [ok |-> FALSE, v |-> None]
       ELSE [ok |-> TRUE, v |-> DictGet(overall, <<"summary">>, None)]

\* steps 2, 3 and 5 of process for the four responses: the report, or
\* raised for an AttributeError or TypeError of the aggregation
Process(resp) ==
    LET type_result == ParseJsonMaybe(resp["type"], DefaultTypeObj)
        material_result == ParseJsonMaybe(resp["material"], MaterialFallback)
        damage_result == ParseJsonMaybe(resp["damage"], DefaultGradedObj)
        soil_result == ParseJsonMaybe(resp["soil"], DefaultGradedObj)
    IN IF \E r \in {type_result, material_result, damage_result, soil_result} : r.t # "dict"
         THEN Raised
       ELSE IF \/ ~MaterialDisplay(material_result).ok
               \/ ~OverallSummary(damage_result).ok
               \/ ~OverallSummary(soil_result).ok
         THEN Raised
       ELSE Returned(DictOf(<<
              <<<<"toy_type">>, DictGet(type_result, <<"type">>, StrVal(<<"others">>))>>,
              <<<<"battery">>, DictGet(type_result, <<"battery">>, StrVal(<<"unknown">>))>>,
              <<<<"material">>, MaterialDisplay(material_result).v>>,
              <<<<"size">>, DictGet(type_result, <<"size">>, StrVal(<<"unknown">>))>>,
              <<<<"damage_absolute_grade">>,
                PyOr(DictGet(damage_result, <<"absolute_grade">>, None),
                     DictGet(damage_result, <<"grade">>, None))>>,
              <<<<"damage_score_avg">>,
                PyOr(DictGet(damage_result, <<"absolute_score_avg">>, None),
                     DictGet(damage_result, <<"query_damage_score">>, None))>>,
              <<<<"damage_summary">>, OverallSummary(damage_result).v>>,
              <<<<"soil_absolute_grade">>,
                PyOr(DictGet(soil_result, <<"absolute_grade">>, None),
                     DictGet(soil_result, <<"grade">>, None))>>,
              <<<<"soil_level">>, DictGet(soil_result, <<"soil_level">>, None)>>,
              <<<<"soil_summary">>, OverallSummary(soil_result).v>> >>))

(***************************************************************************)
(* run_full_pipeline with the agents and process spelled out               *)
(***************************************************************************)

\* the lexemes of {"k1": v1, ...} for string or bare-word values
Obj(d) == DumpsValue(d)

\* a reply whose text is the lexemes toks
Text(toks) == Reply(FALSE, TextVal(toks))

ApiError == Reply(TRUE, None)

NotJson == Text(<<Word("Sorry"), Word("I"), Word("cannot"), Word("tell")>>)

\* replies of the type model: API error, no text, a wrapped and an unwrapped
\* object, a category outside the taxonomy, a null category, prose, and
\* JSON that is a list, a number, a string and null
TypeReplies ==
    { ApiError,
      Reply(FALSE, None),
      Text(Obj(DictOf(<< <<<<"type">>, StrVal(<<"robot">>)>>,
                         <<<<"battery">>, StrVal(<<"battery">>)>>,
                         <<<<"size">>, StrVal(<<"small">>)>> >>))),
      Text(<<Fence, Word("json"), Newline>>
           \o Obj(DictOf(<< <<<<"type">>, StrVal(<<"dolls">>)>> >>))
           \o <<Newline, Fence>>),
      Text(Obj(DictOf(<< <<<<"type">>, StrVal(<<"spaceship">>)>> >>))),
      Text(Obj(DictOf(<< <<<<"type">>, None>> >>))),
      NotJson,
      Text(<<Punct("["), StrTok(<<"robot">>), Punct("]")>>),
      Text(<<NumTok(<<"5">>)>>),
      Text(<<StrTok(<<"robot">>)>>),
      Text(<<Word("null")>>) }

\* replies of the material model: API error, a padded upper-case name, the
\* mixed form with names, with a number among them and with nothing, a
\* name outside the taxonomy, a number for a name, prose and a list
MaterialReplies ==
    { ApiError,
      Text(Obj(DictOf(<< <<<<"material">>, StrVal(<<" ", "PLASTIC", " ">>)>>,
                         <<<<"confidence">>, IntVal(1)>> >>))),
      Text(Obj(DictOf(<< <<<<"material">>, StrVal(<<"Mixed">>)>>,
                         <<<<"components">>,
                           ListVal(<<StrVal(<<"plastic">>), StrVal(<<"metal">>)>>)>> >>))),
      Text(Obj(DictOf(<< <<<<"material">>, StrVal(<<"mixed">>)>>,
                         <<<<"components">>,
                           ListVal(<<StrVal(<<"plastic">>), IntVal(5)>>)>> >>))),
      Text(Obj(DictOf(<< <<<<"material">>, StrVal(<<"mixed">>)>>,
                         <<<<"components">>, ListVal(<<>>)>> >>))),
      Text(Obj(DictOf(<< <<<<"material">>, StrVal(<<"glass">>)>> >>))),
      Text(Obj(DictOf(<< <<<<"material">>, IntVal(5)>> >>))),
      NotJson,
      Text(<<Punct("["), Punct("]")>>) }

\* replies of the damage model: API error, each kind of label with and
\* without a lost part, prose, and JSON that is a list
DamageReplies ==
    { ApiError,
      Text(Obj(DictOf(<< <<<<"overall">>, DictOf(<< <<<<"summary">>, StrVal(<<"fine">>)>> >>)>>,
                         <<<<"checklist">>,
                           DictOf(<< <<<<"arm_left">>, StrVal(<<"present">>)>>,
                                     <<<<"wheel_missing">>, BoolVal(FALSE)>> >>)>>,
                         <<<<"damage">>, StrVal(NoDamageLabel)>> >>))),
      Text(Obj(DictOf(<< <<<<"damage">>, StrVal(FineDamageLabel)>> >>))),
      Text(Obj(DictOf(<< <<<<"damage">>, StrVal(SevereDamageLabel)>> >>))),
      Text(Obj(DictOf(<< <<<<"checklist">>,
                           DictOf(<< <<<<"head">>, StrVal(<<"D", "e", "t", "a", "c", "h", "e", "d">>)>> >>)>>,
                         <<<<"damage">>, StrVal(MinorDamageLabel)>> >>))),
      Text(Obj(DictOf(<< <<<<"damage">>, StrVal(MissingPartLabel)>> >>))),
      NotJson,
      Text(<<Punct("["), Punct("]")>>) }

\* replies of the soil model: API error, labels, a dirty label with a
\* severe-dirt note, prose, and JSON that is a number
SoilReplies ==
    { ApiError,
      Text(Obj(DictOf(<< <<<<"soil">>, StrVal(<<"h_kkae", "h_kkeut">>)>> >>))),
      Text(Obj(DictOf(<< <<<<"soil">>, StrVal(<<"h_yak", "h_gan", " ", "h_deo", "h_reo", "h_um">>)>> >>))),
      Text(Obj(DictOf(<< <<<<"soil">>, StrVal(<<"h_mae", "h_u", " ", "h_deo", "h_reo", "h_um">>)>> >>))),
      Text(Obj(DictOf(<< <<<<"soil">>, StrVal(<<"h_deo", "h_reo", "h_um">>)>>,
                         <<<<"notes">>, StrVal(<<"S", "t", "i", "c", "k", "y">>)>> >>))),
      NotJson,
      Text(<<NumTok(<<"5">>)>>) }

RepInit ==
    /\ SupInit
    /\ LabIdle
    /\ img = "bytes"
    /\ ppc = "start"
    /\ brief_used \in {None, IntVal(10000)}
    /\ readable \in BOOLEAN
    /\ base_bias = DefaultBias
    /\ used_avg = None
    /\ dmg_grade = None
    /\ soil_grade = None
    /\ purchase_price = None
    /\ estCalls = 0
    /\ api_key \in BOOLEAN
    /\ \E a \in TypeReplies, b \in MaterialReplies, c \in DamageReplies, d \in SoilReplies :
         replies = [t \in Tasks |-> CASE t = "type" -> a [] t = "material" -> b
                                       [] t = "damage" -> c [] t = "soil" -> d]
    /\ responses = [t \in Tasks |-> None]
    /\ report = None
    /\ attrs = None
    /\ error = "none"
    /\ agentsRun = FALSE

\* run_condition_agents_absolute: img_b is None, the conservative defaults
RepNoImage ==
    /\ ppc = "condition"
    /\ ~readable
    /\ attrs' = DictOf(<< <<<<"toy_type">>, StrVal(<<"others">>)>>,
                          <<<<"material">>, StrVal(<<"unknown">>)>>,
                          <<<<"soil_absolute_grade">>, None>>,
                          <<<<"damage_absolute_grade">>, None>> >>)
    /\ soil_grade' = None
    /\ dmg_grade' = None
    /\ ppc' = "price"
    /\ UNCHANGED <<brief_used, readable, used_avg, base_bias, purchase_price, estCalls>>
    /\ UNCHANGED <<api_key, replies, responses, report, error, agentsRun>>
    /\ UNCHANGED <<supVars, labVars>>

\* sup = SupervisorAgent(): each agent's __init__ needs an API key
MayConstruct == api_key

\* SupervisorAgent() succeeds
RepConstruct ==
    /\ ppc = "condition"
    /\ readable
    /\ MayConstruct
    /\ ppc' = "agents"
    /\ UNCHANGED <<brief_used, readable, used_avg, dmg_grade, soil_grade, base_bias,
                   purchase_price, estCalls>>
    /\ UNCHANGED repVars
    /\ UNCHANGED <<supVars, labVars>>

\* TypeAgent.__init__ raises RuntimeError: no API key
RepConstructRaise ==
    /\ ppc = "condition"
    /\ readable
    /\ ~MayConstruct
    /\ error' = "config"
    /\ ppc' = "raised"
    /\ UNCHANGED <<brief_used, readable, used_avg, dmg_grade, soil_grade, base_bias,
                   purchase_price, estCalls>>
    /\ UNCHANGED <<api_key, replies, responses, report, attrs, agentsRun>>
    /\ UNCHANGED <<supVars, labVars>>

\* _run_parallel_with_fallback returns: replies[t] is the reply to the call
\* of t whose result is kept
RepAgents ==
    /\ ppc = "agents"
    /\ \A t \in Tasks : ~Analyze(t, replies[t]).raised
    /\ responses' = [t \in Tasks |-> Analyze(t, replies[t]).v]
    /\ agentsRun' = TRUE
    /\ ppc' = "process"
    /\ UNCHANGED <<brief_used, readable, used_avg, dmg_grade, soil_grade, base_bias,
                   purchase_price, estCalls>>
    /\ UNCHANGED <<api_key, replies, report, attrs, error>>
    /\ UNCHANGED <<supVars, labVars>>

\* _run_parallel_with_fallback raises: an agent raised in its fallback call
RepAgentsRaise ==
    /\ ppc = "agents"
    /\ \E t \in Tasks : Analyze(t, replies[t]).raised
    /\ agentsRun' = TRUE
    /\ error' = "agent"
    /\ ppc' = "raised"
    /\ UNCHANGED <<brief_used, readable, used_avg, dmg_grade, soil_grade, base_bias,
                   purchase_price, estCalls>>
    /\ UNCHANGED <<api_key, replies, responses, report, attrs>>
    /\ UNCHANGED <<supVars, labVars>>

\* process parses, aggregates and returns the report
RepProcess ==
    /\ ppc = "process"
    /\ ~Process(responses).raised
    /\ report' = Process(responses).v
    /\ ppc' = "attrs"
    /\ UNCHANGED <<brief_used, readable, used_avg, dmg_grade, soil_grade, base_bias,
                   purchase_price, estCalls>>
    /\ UNCHANGED <<api_key, replies, responses, attrs, error, agentsRun>>
    /\ UNCHANGED <<supVars, labVars>>

\* process raises while aggregating
RepProcessRaise ==
    /\ ppc = "process"
    /\ Process(responses).raised
    /\ error' = "aggregate"
    /\ ppc' = "raised"
    /\ UNCHANGED <<brief_used, readable, used_avg, dmg_grade, soil_grade, base_bias,
                   purchase_price, estCalls>>
    /\ UNCHANGED <<api_key, replies, responses, report, attrs, agentsRun>>
    /\ UNCHANGED <<supVars, labVars>>

\* run_condition_agents_absolute returns four fields of the report, and
\* run_full_pipeline reads the two grades
RepAttrs ==
    /\ ppc = "attrs"
    /\ attrs' = DictOf(<<
         <<<<"toy_type">>, DictGet(report, <<"toy_type">>, StrVal(<<"others">>))>>,
         <<<<"material">>, DictGet(report, <<"material">>, StrVal(<<"unknown">>))>>,
         <<<<"soil_absolute_grade">>, DictGet(report, <<"soil_absolute_grade">>, None)>>,
         <<<<"damage_absolute_grade">>, DictGet(report, <<"damage_absolute_grade">>, None)>> >>)
    /\ soil_grade' = DictGet(report, <<"soil_absolute_grade">>, None)
    /\ dmg_grade' = DictGet(report, <<"damage_absolute_grade">>, None)
    /\ ppc' = "price"
    /\ UNCHANGED <<brief_used, readable, used_avg, base_bias, purchase_price, estCalls>>
    /\ UNCHANGED <<api_key, replies, responses, report, error, agentsRun>>
    /\ UNCHANGED <<supVars, labVars>>

RepNext ==
    \/ PipeBrief
    \/ RepNoImage
    \/ RepConstruct
    \/ RepConstructRaise
    \/ RepAgents
    \/ RepAgentsRaise
    \/ RepProcess
    \/ RepProcessRaise
    \/ RepAttrs
    \/ PipeEstimate
    \/ PipeNoBaseline

RepSpec == RepInit /\ [][RepNext]_vars

(***************************************************************************)
(* DamageAgent.analyze, SoilAgent.analyze and _normalize_label on their    *)
(* own, over label texts made of up to MaxLabelWords words                 *)
(***************************************************************************)

\* longest label text tried, in words
MaxLabelWords == 2

\* a key the model left out of its JSON
Absent == [t |-> "absent"]

\* the texts of up to n of the words, joined by blanks
RECURSIVE PhrasesOf(_, _)
PhrasesOf(words, n) ==
    IF n = 0 THEN {<<>>}
    ELSE PhrasesOf(words, n - 1) \cup
         {IF p = <<>> THEN w ELSE p \o <<" ">> \o w :
            p \in PhrasesOf(words, n - 1), w \in words}

\* the allowed labels, the two "cannot tell" words, a bare "severe", English
\* and Korean keywords in either case, and a word that is no keyword
DamageWords ==
    { NoDamageLabel, FineDamageLabel, MinorDamageLabel, MissingPartLabel,
      SevereDamageLabel, <<"h_pan", "h_dan">>, <<"h_bul", "h_myeong">>, <<"h_sim", "h_gak">>,
      <<"M", "i", "s", "s", "i", "n", "g">>, <<"c", "r", "a", "c", "k", "e", "d">>, <<"s", "c", "r", "a", "t", "c", "h">>, <<"h_geum">>, <<"d", "i", "r", "t", "y">> }

\* what base.get("damage") can be: absent, null, a number, a text
DamageLabels ==
    {Absent, None, IntVal(5), StrVal(<<" ">> \o SevereDamageLabel \o <<" ">>)}
        \cup {StrVal(p) : p \in PhrasesOf(DamageWords, MaxLabelWords)}

\* what a checklist entry of a core part can be
PartStates == {Absent, StrVal(<<"p", "r", "e", "s", "e", "n", "t">>), StrVal(<<"m", "i", "s", "s", "i", "n", "g">>), StrVal(<<"D", "e", "t", "a", "c", "h", "e", "d">>)}

\* what checklist.wheel_missing can be
WheelStates == {Absent, BoolVal(FALSE), BoolVal(TRUE), IntVal(1)}

\* a dict of the pairs whose value is not Absent
RECURSIVE DictOfPresent(_)
DictOfPresent(pairs) ==
    IF pairs = <<>> THEN EmptyDict
    ELSE IF pairs[Len(pairs)][2] = Absent
      THEN DictOfPresent(SubSeq(pairs, 1, Len(pairs) - 1))
    ELSE DictSet(DictOfPresent(SubSeq(pairs, 1, Len(pairs) - 1)),
                 pairs[Len(pairs)][1], pairs[Len(pairs)][2])

\* the reply whose text is the JSON of these fields
DamageReplyOf(c) ==
    Text(DumpsValue(DictOfPresent(<<
        <<<<"checklist">>,
          DictOfPresent(<< <<<<"arm_left">>, c.arm_left>>,
                           <<<<"head">>, c.head>>,
                           <<<<"wheel_missing">>, c.wheel_missing>> >>)>>,
        <<<<"damage">>, c.damage>> >>)))

DamageInit ==
    /\ SupInit
    /\ PipeIdle
    /\ RepIdle
    /\ lpc = "damage"
    /\ call \in [damage : DamageLabels, arm_left : PartStates,
                 head : {Absent, StrVal(<<"D", "e", "t", "a", "c", "h", "e", "d">>)},
                 wheel_missing : WheelStates]
    /\ ret = None

\* one call of DamageAgent.analyze
DamageCall ==
    /\ lpc = "damage"
    /\ ret' = DamageAnalyze(DamageReplyOf(call)).v
    /\ lpc' = "graded"
    /\ UNCHANGED call
    /\ UNCHANGED <<supVars, pipeVars, repVars>>

DamageNext == DamageCall

DamageSpec == DamageInit /\ [][DamageNext]_vars

\* the five soil labels, a word that is none of them, and "very" on its own
SoilWords ==
    { <<"h_kkae", "h_kkeut">>, <<"h_bo", "h_tong">>, <<"h_yak", "h_gan", " ", "h_deo", "h_reo", "h_um">>, <<"h_deo", "h_reo", "h_um">>,
      <<"h_mae", "h_u", " ", "h_deo", "h_reo", "h_um">>, <<"h_mae", "h_u">>, <<"d", "u", "s", "t", "y">> }

\* what base.get("soil") can be
SoilLabels ==
    {Absent, None} \cup {StrVal(p) : p \in PhrasesOf(SoilWords, MaxLabelWords)}

\* what base.get("notes") can be: absent, and notes without and with a
\* severe-dirt keyword
SoilNotes ==
    {Absent, StrVal(<<>>), StrVal(<<"d", "u", "s", "t", "y">>), StrVal(<<"S", "t", "i", "c", "k", "y">>),
     StrVal(<<"h_gom", "h_pang">>), StrVal(<<"o", "l", "d", " ", "o", "i", "l", " ", "s", "t", "a", "i", "n">>)}

SoilReplyOf(c) ==
    Text(DumpsValue(DictOfPresent(<< <<<<"soil">>, c.soil>>, <<<<"notes">>, c.notes>> >>)))

SoilInit ==
    /\ SupInit
    /\ PipeIdle
    /\ RepIdle
    /\ lpc = "soil"
    /\ call \in [soil : SoilLabels, notes : SoilNotes]
    /\ ret = None

\* one call of SoilAgent.analyze
SoilCall ==
    /\ lpc = "soil"
    /\ ret' = SoilAnalyze(SoilReplyOf(call)).v
    /\ lpc' = "graded"
    /\ UNCHANGED call
    /\ UNCHANGED <<supVars, pipeVars, repVars>>

SoilNext == SoilCall

SoilSpec == SoilInit /\ [][SoilNext]_vars

\* the value base.get("damage") gives
LabelArg(v) == IF v = Absent THEN None ELSE v

NormInit ==
    /\ SupInit
    /\ PipeIdle
    /\ RepIdle
    /\ lpc = "label"
    /\ call \in [damage : DamageLabels]
    /\ ret = None

\* _normalize_label(label)
NormalizeCall ==
    /\ lpc = "label"
    /\ ret' = [once |-> StrVal(NormalizeLabel(LabelArg(call.damage))), twice |-> None]
    /\ lpc' = "normalized"
    /\ UNCHANGED call
    /\ UNCHANGED <<supVars, pipeVars, repVars>>

\* _normalize_label applied to the label it returned
NormalizeAgain ==
    /\ lpc = "normalized"
    /\ ret' = [ret EXCEPT !.twice = StrVal(NormalizeLabel(ret.once))]
    /\ lpc' = "renormalized"
    /\ UNCHANGED call
    /\ UNCHANGED <<supVars, pipeVars, repVars>>

NormNext == NormalizeCall \/ NormalizeAgain

NormSpec == NormInit /\ [][NormNext]_vars

(***************************************************************************)
(* Properties of _run_parallel_with_fallback                               *)
(***************************************************************************)

\* the parallel phase left no successful result for t: its future was not
\* in `done` when wait returned, or it finished by raising
NoParallelResult(t) == ~(t \in done /\ futs[t] = "ok")

PastWait == pc \notin {"idle", "wait"}

Ended == pc \in {"returned", "raised"}

\* C1: _run_parallel_with_fallback never raises, whatever classifiers raise
\* in the parallel phase and in the fallback re-run.
C1_NeverRaises == pc # "raised"

C3_NoRerunWhenAllInTime ==
    (PastWait /\ \A t \in Tasks : t \in done /\ futs[t] = "ok") =>
        /\ \A t \in Tasks : fbCalls[t] = 0 /\ fb[t] = "no" /\ parCalls[t] = 1
        /\ pc \in {"fallback", "returned"} => \A t \in Tasks : results[t] = "par"
        /\ pc \notin {"fbcall", "raised"}

C3_Witness ==
    /\ pc = "returned"
    /\ waited < Deadline
    /\ \A t \in Tasks : t \in done /\ futs[t] = "ok" /\ results[t] = "par"

\* C4: a parallel task that completes after wait has returned never writes
\* the result map; its slot ends up holding the fallback result.
C4_LateResultDiscarded ==
    \A t \in Tasks :
        (PastWait /\ t \notin done) =>
            /\ results[t] # "par"
            /\ pc = "returned" => results[t] = "fb"

C4_Witness ==
    /\ pc = "returned"
    /\ \E t \in Tasks \ done : futs[t] = "ok" /\ results[t] = "fb"

\* C5: whenever the call returns, all four slots are present and none is
\* None.
C5_AllSlotsFilled ==
    pc = "returned" => \A t \in Tasks : results[t] \in {"par", "fb"}

C5_Witness ==
    /\ pc = "returned"
    /\ timedOut
    /\ \E t \in Tasks : futs[t] = "exc" /\ results[t] = "fb"
    /\ \E t \in Tasks : futs[t] = "running" /\ results[t] = "fb"
    /\ \E t \in Tasks : results[t] = "par"

\* C6: the caller leaves wait only when all four tasks have completed, one
\* has raised, or the 30-unit deadline has elapsed, and then goes on to the
\* collection; until then nothing of the caller's state changes.
C6_WaitEndsOnThreeEvents ==
    [][ /\ (pc = "wait" /\ pc' # "wait") =>
            /\ ( \/ \A t \in Tasks : futs[t] \in {"ok", "exc", "cancelled"}
                 \/ \E t \in Tasks : futs[t] = "exc"
                 \/ waited >= 30 )
            /\ pc' = "collect"
        /\ (pc = "wait" /\ pc' = "wait") =>
            (results' = results /\ fb' = fb /\ done' = done)
      ]_vars

C6_Witness ==
    /\ pc = "collect"
    /\ waited < Deadline
    /\ \E t \in Tasks : futs[t] = "exc"
    /\ \E t \in Tasks : futs[t] = "running"

\* C7: the caller does not wait for stragglers: provided every fallback call
\* returns, the call eventually returns even if a parallel task never ends.
C7_ReturnsDespiteStragglers ==
    ((pc = "fbcall") ~> (pc = "fallback")) => <>(pc = "returned")

C7_Witness ==
    /\ pc = "returned"
    /\ \E t \in Tasks : futs[t] = "running" /\ t \notin done

\* C8: every task without a successful result when the parallel phase ends
\* is re-run in the fallback pass, one at a time in the order type, material,
\* damage, soil, never overlapping and never before collection has finished.
C8_EveryMissingTaskRerunInOrder ==
    /\ Ended => \A t \in Tasks : NoParallelResult(t) => fbCalls[t] = 1
    /\ Cardinality({t \in Tasks : fb[t] = "running"}) <= 1
    /\ \A t \in Tasks : fb[t] = "running" => pc = "fbcall"
    /\ \A i, j \in 1..Len(TaskOrder) :
         (i < j /\ fbCalls[TaskOrder[j]] > 0 /\ NoParallelResult(TaskOrder[i])) =>
             fb[TaskOrder[i]] \in {"returned", "raised"}

(***************************************************************************)
(* Properties of run_full_pipeline and of the estimator                    *)
(***************************************************************************)

\* a text that reads as a number: blanks around, thousands commas anywhere,
\* an optional sign, digits with at most one decimal point
C9_NumberText(s) ==
    LET u == SelectSeq(s, LAMBDA c : c # ",")
    IN \E a, b \in 1..Len(u) :
         /\ a <= b
         /\ \A i \in 1..Len(u) : (i < a \/ i > b) => u[i] = " "
         /\ u[a] # " " /\ u[b] # " "
         /\ LET first == IF u[a] \in {"+", "-"} THEN a + 1 ELSE a
            IN /\ \A i \in first..b : u[i] \in DigitChars \cup {"."}
               /\ \E i \in first..b : u[i] \in DigitChars
               /\ Cardinality({i \in first..b : u[i] = "."}) <= 1

\* the similarity collaborator supplied a baseline used price
C9_BaselineSupplied ==
    \/ brief_used.t = "int"
    \/ brief_used.t = "str" /\ C9_NumberText(brief_used.s)

\* C9: when run_full_pipeline returns and no baseline used price was
\* supplied (missing, or not convertible to an integer), purchase_price is
\* null and the estimator was not called; when one was supplied,
\* purchase_price is an integer.
C9_NullPriceWithoutBaseline ==
    ppc = "returned" =>
        IF C9_BaselineSupplied
          THEN purchase_price.t = "int" /\ estCalls = 1
          ELSE purchase_price = None /\ estCalls = 0

C9_Witness ==
    /\ ppc = "returned"
    /\ readable
    /\ brief_used.t = "str" /\ brief_used.s # <<>> /\ ~C9_NumberText(brief_used.s)
    /\ purchase_price = None
    /\ estCalls = 0

\* the multiplier the table gives a grade, in hundredths: A 1.00, B 0.95,
\* C 0.90, D 0.80, E 0.65 for the letter (in either case, blanks around it
\* ignored), 0.90 for null and for anything else
C10_Hundredths(g) ==
    LET is(c, l) == /\ g.t = "str"
                    /\ \E i \in 1..Len(g.s) :
                         /\ g.s[i] \in {c, l}
                         /\ \A j \in 1..Len(g.s) : j # i => g.s[j] = " "
    IN CASE is("A", "a") -> 100
         [] is("B", "b") -> 95
         [] is("D", "d") -> 80
         [] is("E", "e") -> 65
         [] OTHER -> 90

\* C10: the estimator returns baseline * base_bias * m(damage) * m(soil)
\* rounded to the nearest 100 (a multiple of 100 at most 50 away from the
\* exact product); with base_bias 0.7, (10000, A, A) gives 7000,
\* (10000, E, E) gives 3000 and (10000, null, B) gives 6000.
C10_NearestHundred ==
    ppc = "estimated" =>
        LET b == used_avg.n
            p == purchase_price.n
            scale == base_bias[2] * 10000
            exact == b * base_bias[1] * C10_Hundredths(dmg_grade) * C10_Hundredths(soil_grade)
            diff == p * scale - exact
        IN /\ p % 100 = 0
           /\ 2 * (IF diff < 0 THEN -diff ELSE diff) <= 100 * scale
           /\ (b = 10000 /\ base_bias = <<7, 10>>) =>
                /\ (dmg_grade = StrVal(<<"A">>) /\ soil_grade = StrVal(<<"A">>)) => p = 7000
                /\ (dmg_grade = StrVal(<<"E">>) /\ soil_grade = StrVal(<<"E">>)) => p = 3000
                /\ (dmg_grade = None /\ soil_grade = StrVal(<<"B">>)) => p = 6000

C10_Witness ==
    /\ ppc = "estimated"
    /\ used_avg = IntVal(10000)
    /\ base_bias = <<7, 10>>
    /\ dmg_grade = None
    /\ soil_grade = StrVal(<<"B">>)
    /\ purchase_price = IntVal(6000)

\* the float x is exactly the natural number v
C11_FloatIs(x, v) ==
    /\ x.s = 1
    /\ IF x.e >= 0 THEN Trim(ShiftLeft(x.m, x.e)) = NatToBig(v)
       ELSE Trim(ShiftLeft(NatToBig(v), -x.e)) = Trim(x.m)

\* the largest multiple of 100 a raw price of the baselines tried can reach
C11_MaxHundreds == (MaxBaselineSteps * BaselineStep) \div 100

\* C11: when the raw price baseline * base_bias * m(damage) * m(soil) is
\* exactly halfway between two multiples of 100 (250, 2450, ...), the
\* estimator returns the higher of the two, for every such tie.
C11_TiesRoundUp ==
    ppc = "estimated" =>
        \A k \in 0..C11_MaxHundreds :
            C11_FloatIs(RawPrice(used_avg.n, dmg_grade, soil_grade, base_bias),
                        100 * k + 50)
                => purchase_price = IntVal(100 * k + 100)

\* C12: whenever the pipeline returns with a known (non-null) baseline
\* price, whatever the two grades, 0 <= purchase_price <= baseline_price.
C12_PriceWithinBaseline ==
    (ppc = "returned" /\ used_avg # None) =>
        /\ purchase_price.t = "int"
        /\ 0 <= purchase_price.n
        /\ purchase_price.n <= used_avg.n

(***************************************************************************)
(* Properties of the agents, of process and of the report                  *)
(***************************************************************************)

C13_ReportKeys ==
    {"toy_type", "battery", "material", "size", "damage_absolute_grade",
     "damage_score_avg", "damage_summary", "soil_absolute_grade", "soil_level",
     "soil_summary"}

\* C13: the parse-and-aggregate step of process is total: whatever the four
\* responses are (JSON objects, prose, or JSON that is a list, a number, a
\* string or null) it does not raise, and the report has every field.
C13_NormalizationTotal ==
    /\ error # "aggregate"
    /\ report # None => \A k \in C13_ReportKeys : DictHas(report, <<k>>)

C14_IsGrade(g) == g \in {StrVal(<<c>>) : c \in GradeLetters}

\* C14: the damage and soil grades of the report, of the condition
\* attributes and of the pipeline's final output are always one of A..E,
\* never null, also when the image could not be read.
C14_GradesAlwaysLetters ==
    /\ report # None =>
          /\ C14_IsGrade(DictGet(report, <<"damage_absolute_grade">>, None))
          /\ C14_IsGrade(DictGet(report, <<"soil_absolute_grade">>, None))
    /\ attrs # None =>
          /\ C14_IsGrade(DictGet(attrs, <<"damage_absolute_grade">>, None))
          /\ C14_IsGrade(DictGet(attrs, <<"soil_absolute_grade">>, None))
    /\ ppc = "returned" => C14_IsGrade(dmg_grade) /\ C14_IsGrade(soil_grade)

C15_ToyTypes ==
    {"robot", "building_blocks", "dolls", "vehicles", "educational",
     "action_figures", "board_games", "musical", "sports", "others"}

C15_Materials ==
    {"plastic", "metal", "wood", "fabric", "silicone", "rubber",
     "paper_cardboard", "electronic", "mixed", "unknown"}

\* a material name of the taxonomy, or mixed(a,b,...) of such names
C15_IsMaterial(v) ==
    /\ v.t = "str"
    /\ \/ Len(v.s) = 1 /\ v.s[1] \in C15_Materials
       \/ /\ Len(v.s) >= 4
          /\ v.s[1] = "mixed" /\ v.s[2] = "(" /\ v.s[Len(v.s)] = ")"
          /\ \A i \in 3..(Len(v.s) - 1) :
                IF i % 2 = 1 THEN v.s[i] \in C15_Materials ELSE v.s[i] = ","

\* C15: toy_type and material of the report process returns are always in
\* the taxonomies: one of the ten toy types; one of the ten material names
\* or the mixed(...) form.
C15_ReportInTaxonomy ==
    report # None =>
        /\ DictGet(report, <<"toy_type">>, None) \in {StrVal(<<c>>) : c \in C15_ToyTypes}
        /\ C15_IsMaterial(DictGet(report, <<"material">>, None))

\* C16: without an API key the configuration error is raised when the
\* agents are constructed, before any analyze call and before any other
\* stage of the pipeline has worked, and the pipeline returns no result.
C16_MissingCredentialFatal ==
    ~api_key =>
        /\ ~agentsRun
        /\ ppc # "returned"
        /\ ppc \in {"start", "raised"}
        /\ ppc = "raised" => error = "config"

(***************************************************************************)
(* Properties of the damage and soil agents' grades                        *)
(***************************************************************************)

\* the checklist of the call marks a limb or the head missing or detached,
\* or its wheel_missing is true
C17_PartLost ==
    \/ \E k \in {"arm_left", "head"} :
          call[k] \in {StrVal(<<"m", "i", "s", "s", "i", "n", "g">>),
                       StrVal(<<"D", "e", "t", "a", "c", "h", "e", "d">>)}
    \/ call.wheel_missing \in {BoolVal(TRUE), IntVal(1)}

\* the label of the call normalizes to the severe one
C17_LabelSevere == NormalizeLabel(LabelArg(call.damage)) = SevereDamageLabel

C17_Grade == DictGet(ret, <<"absolute_grade">>, None)

\* C17: DamageAgent.analyze grades D or E only when a core part is lost or
\* the normalized label is the severe one; otherwise the grade is A, B or C
\* whatever the label; and the grade is E exactly when the normalized label
\* is the severe one.
C17_OnlyCoreLossBelowC ==
    lpc = "graded" =>
        /\ C17_Grade \in {StrVal(<<g>>) : g \in {"A", "B", "C", "D", "E"}}
        /\ C17_Grade \in {StrVal(<<"D">>), StrVal(<<"E">>)} => C17_PartLost \/ C17_LabelSevere
        /\ ~(C17_PartLost \/ C17_LabelSevere) => C17_Grade \in {StrVal(<<g>>) : g \in {"A", "B", "C"}}
        /\ C17_Grade = StrVal(<<"E">>) <=> C17_LabelSevere

\* a reply labelled "part missing" whose checklist lost nothing was graded C
C17_FloorApplied ==
    /\ lpc = "graded"
    /\ call.damage = StrVal(MissingPartLabel)
    /\ ~C17_PartLost
    /\ C17_Grade = StrVal(<<"C">>)

\* the score the label table promises for a label that is one of the five,
\* and 2 for a text that contains none of them
C18_TableScore(label) ==
    CASE label = <<"h_kkae", "h_kkeut">> -> 4
      [] label = <<"h_bo", "h_tong">> -> 3
      [] label = <<"h_yak", "h_gan", " ", "h_deo", "h_reo", "h_um">> -> 2
      [] label = <<"h_deo", "h_reo", "h_um">> -> 1
      [] label = <<"h_mae", "h_u", " ", "h_deo", "h_reo", "h_um">> -> 0
      [] OTHER -> 2

\* the labels the table speaks of: the five, and texts with none of them
C18_Labels ==
    {StrVal(l) : l \in { <<"h_kkae", "h_kkeut">>, <<"h_bo", "h_tong">>, <<"h_yak", "h_gan", " ", "h_deo", "h_reo", "h_um">>, <<"h_deo", "h_reo", "h_um">>,
                         <<"h_mae", "h_u", " ", "h_deo", "h_reo", "h_um">>, <<"h_mae", "h_u">>, <<"d", "u", "s", "t", "y">>, <<"d", "u", "s", "t", "y", " ", "d", "u", "s", "t", "y">> }}

\* the notes of the call hold a severe-dirt keyword
C18_NotesSevere ==
    call.notes \in {StrVal(<<"S", "t", "i", "c", "k", "y">>), StrVal(<<"h_gom", "h_pang">>), StrVal(<<"o", "l", "d", " ", "o", "i", "l", " ", "s", "t", "a", "i", "n">>)}

C18_Score == DictGet(ret, <<"absolute_score_avg">>, None)

\* C18: SoilAgent.analyze scores clean 4 (A), normal 3 (B), slightly dirty
\* 2 (C), dirty 1 (D) and very dirty 0 (E) whatever the notes, an unknown
\* label 2 (C), and lowers a score of 1 to 0 only when the notes hold a
\* severe-dirt keyword.
C18_LabelScores ==
    lpc = "graded" /\ call.soil \in C18_Labels =>
        /\ C18_Score =
             FloatVal(IF C18_TableScore(call.soil.s) = 1 /\ C18_NotesSevere THEN 0
                      ELSE C18_TableScore(call.soil.s))
        /\ DictGet(ret, <<"absolute_grade">>, None) = StrVal(<<ScoreToGradeSingle(C18_Score.n)>>)

(***************************************************************************)
(* How often _run_parallel_with_fallback invokes a classifier              *)
(***************************************************************************)

\* the invocations of t's analyze that have started and not ended
C19_InFlight(t) ==
    (IF futs[t] = "running" THEN 1 ELSE 0) + (IF fb[t] = "running" THEN 1 ELSE 0)

\* C19: in a run of _run_parallel_with_fallback that returns, each
\* classifier's analyze has been invoked at least once and at most twice,
\* at most once by a worker and at most once by the fallback chain, and at
\* no moment are more than two invocations of one classifier in flight.
C19_OneOrTwoInvocations ==
    /\ \A t \in Tasks : parCalls[t] <= 1 /\ fbCalls[t] <= 1 /\ C19_InFlight(t) <= 2
    /\ pc = "returned" => \A t \in Tasks : parCalls[t] + fbCalls[t] \in {1, 2}

\* the call returned with a classifier invoked twice, its worker still
\* running, and another classifier invoked by the fallback chain alone
C19_ReturnedWithStraggler ==
    /\ pc = "returned"
    /\ \E t \in Tasks : parCalls[t] = 1 /\ fbCalls[t] = 1 /\ futs[t] = "running"
    /\ \E t \in Tasks : parCalls[t] = 0 /\ fbCalls[t] = 1

(***************************************************************************)
(* Properties of _normalize_label                                          *)
(***************************************************************************)

\* the five allowed labels
C20_Allowed == {StrVal(ALLOWED_DAMAGE[i]) : i \in 1..Len(ALLOWED_DAMAGE)}

\* C20: _normalize_label is closed and idempotent: whatever the label
\* (null, empty, an allowed label, free text with or without keywords), it
\* returns one of the five allowed labels, and applied to the label it
\* returned it returns that label again.
C20_ClosedAndIdempotent ==
    /\ lpc \in {"normalized", "renormalized"} => ret.once \in C20_Allowed
    /\ lpc = "renormalized" => ret.twice = ret.once

\* a free text with a break keyword became the severe label, and stayed it
C20_KeywordTextSettled ==
    /\ lpc = "renormalized"
    /\ call.damage = StrVal(<<"c", "r", "a", "c", "k", "e", "d">>)
    /\ ret.once = StrVal(SevereDamageLabel)
    /\ ret.twice = StrVal(SevereDamageLabel)

=============================================================================
